---- MODULE Spec2Model ----
(***************************************************************************)
(* Excel-to-Quote: row normalization, row mutation tools and the download  *)
(* artifact store.                                                         *)
(*                                                                         *)
(* JavaScript values are tagged records with one fixed shape, so that any  *)
(* two of them can be compared:                                            *)
(*   t = "undefined" | "null" | "nan" | "num" | "str"                      *)
(*   a number is the decimal n / 10^e, kept normalised (no trailing zero   *)
(*   in the fraction); a string is a sequence of one-character strings.    *)
(* Exponent notation and "Infinity" are outside the alphabet of the model. *)
(***************************************************************************)
EXTENDS Integers, Sequences, FiniteSets, TLC

\* ------------------------------------------------------------------------
\* JavaScript values
\* ------------------------------------------------------------------------
Undefined == [t |-> "undefined", n |-> 0, e |-> 0, s |-> <<>>]

Null == [t |-> "null", n |-> 0, e |-> 0, s |-> <<>>]

NaN == [t |-> "nan", n |-> 0, e |-> 0, s |-> <<>>]

Str(s) == [t |-> "str", n |-> 0, e |-> 0, s |-> s]

RECURSIVE MkNum(_, _)
MkNum(n, e) ==
    IF e > 0 /\ n % 10 = 0 THEN MkNum(n \div 10, e - 1)
    ELSE [t |-> "num", n |-> n, e |-> e, s |-> <<>>]

Int0(n) == MkNum(n, 0)

\* typeof v === 'number' (NaN is a number)
IsNumberType(v) == v.t \in {"num", "nan"}

\* v === null || v === undefined
IsNullish(v) == v.t \in {"null", "undefined"}

\* ------------------------------------------------------------------------
\* Characters
\* ------------------------------------------------------------------------
Digits == {"0", "1", "2", "3", "4", "5", "6", "7", "8", "9"}

DigitVal(c) ==
    CASE c = "0" -> 0 [] c = "1" -> 1 [] c = "2" -> 2 [] c = "3" -> 3
      [] c = "4" -> 4 [] c = "5" -> 5 [] c = "6" -> 6 [] c = "7" -> 7
      [] c = "8" -> 8 [] c = "9" -> 9

DigitChar(d) ==
    CASE d = 0 -> "0" [] d = 1 -> "1" [] d = 2 -> "2" [] d = 3 -> "3"
      [] d = 4 -> "4" [] d = 5 -> "5" [] d = 6 -> "6" [] d = 7 -> "7"
      [] d = 8 -> "8" [] d = 9 -> "9"

\* the regular expression class \s, for the characters of the model
WhiteSpace == {" ", "\t", "\n"}

RECURSIVE RemoveChars(_, _)
\* s.replace(/[set]/g, '')
RemoveChars(s, set) ==
    IF s = <<>> THEN <<>>
    ELSE IF Head(s) \in set THEN RemoveChars(Tail(s), set)
    ELSE <<Head(s)>> \o RemoveChars(Tail(s), set)

RECURSIVE TakeWhile(_, _)
TakeWhile(s, set) ==
    IF s = <<>> \/ Head(s) \notin set THEN <<>>
    ELSE <<Head(s)>> \o TakeWhile(Tail(s), set)

RECURSIVE DropWhile(_, _)
DropWhile(s, set) ==
    IF s = <<>> \/ Head(s) \notin set THEN s
    ELSE DropWhile(Tail(s), set)

RECURSIVE DigitsToInt(_)
DigitsToInt(ds) ==
    IF ds = <<>> THEN 0
    ELSE 10 * DigitsToInt(SubSeq(ds, 1, Len(ds) - 1)) + DigitVal(ds[Len(ds)])

RECURSIVE IntToDigits(_)
\* decimal digits of a natural number
IntToDigits(n) ==
    IF n < 10 THEN <<DigitChar(n)>>
    ELSE IntToDigits(n \div 10) \o <<DigitChar(n % 10)>>

RECURSIVE Pow10(_)
Pow10(e) == IF e = 0 THEN 1 ELSE 10 * Pow10(e - 1)

RECURSIVE Zeros(_)
Zeros(k) == IF k <= 0 THEN <<>> ELSE <<"0">> \o Zeros(k - 1)

\* ------------------------------------------------------------------------
\* parseFloat and String
\* ------------------------------------------------------------------------
\* parseFloat(s): skip leading white space, then the longest prefix
\* [+-]? digits* ( . digits* )? that holds at least one digit; NaN if none.
ParseFloat(s) ==
    LET s1 == DropWhile(s, WhiteSpace)
        neg == s1 # <<>> /\ Head(s1) = "-"
        s2 == IF s1 # <<>> /\ Head(s1) \in {"-", "+"} THEN Tail(s1) ELSE s1
        ip == TakeWhile(s2, Digits)
        s3 == SubSeq(s2, Len(ip) + 1, Len(s2))
        fp == IF s3 # <<>> /\ Head(s3) = "." THEN TakeWhile(Tail(s3), Digits)
              ELSE <<>>
        mag == DigitsToInt(ip \o fp)
    IN  IF ip = <<>> /\ fp = <<>> THEN NaN
        ELSE MkNum(IF neg THEN 0 - mag ELSE mag, Len(fp))

\* String(v) for a number n / 10^e
NumToString(v) ==
    LET mag == IF v.n < 0 THEN 0 - v.n ELSE v.n
        sign == IF v.n < 0 THEN <<"-">> ELSE <<>>
        p == Pow10(v.e)
        fr == IntToDigits(mag % p)
    IN  IF v.e = 0 THEN sign \o IntToDigits(mag)
        ELSE sign \o IntToDigits(mag \div p) \o <<".">>
                  \o Zeros(v.e - Len(fr)) \o fr

\* String(v)
JsString(v) ==
    CASE v.t = "str" -> v.s
      [] v.t = "num" -> NumToString(v)
      [] v.t = "nan" -> <<"N", "a", "N">>
      [] v.t = "null" -> <<"n", "u", "l", "l">>
      [] v.t = "undefined" ->
            <<"u", "n", "d", "e", "f", "i", "n", "e", "d">>

\* ------------------------------------------------------------------------
\* excelParser.ts: value normalizers
\* ------------------------------------------------------------------------
parseQuantity(value) ==
    IF IsNullish(value) \/ value = Str(<<>>) THEN Null
    ELSE LET strValue == RemoveChars(JsString(value), {","} \cup WhiteSpace)
             num == ParseFloat(strValue)
         IN  IF num = NaN THEN Null ELSE num

\* faulty variant: a price in parentheses is read as a negative amount
parsePrice_Accounting(value) ==
    IF IsNullish(value) \/ value = Str(<<>>) THEN Null
    ELSE LET stripped == RemoveChars(JsString(value),
                            {"$", "EUR", "GBP", "YEN", "WON", ","}
                                \cup WhiteSpace)
             num == ParseFloat(RemoveChars(stripped, {"(", ")"}))
         IN  IF num = NaN THEN Null
             ELSE IF stripped # <<>> /\ Head(stripped) = "("
                  THEN MkNum(0 - num.n, num.e)
                  ELSE num

\* The currency symbols of /[$...,\s]/ other than "$" are not ASCII; in the
\* model each is one character written "EUR", "GBP", "YEN", "WON".
parsePrice(value) ==
    IF IsNullish(value) \/ value = Str(<<>>) THEN Null
    ELSE LET stripped == RemoveChars(JsString(value),
                            {"$", "EUR", "GBP", "YEN", "WON", ","}
                                \cup WhiteSpace)
             strValue == RemoveChars(stripped, {"(", ")"})
             num == ParseFloat(strValue)
         IN  IF num = NaN THEN Null ELSE num

\* ------------------------------------------------------------------------
\* Strings
\* ------------------------------------------------------------------------
LowerLetters ==
    <<"a", "b", "c", "d", "e", "f", "g", "h", "i", "j", "k", "l", "m",
      "n", "o", "p", "q", "r", "s", "t", "u", "v", "w", "x", "y", "z">>

UpperLetters ==
    <<"A", "B", "C", "D", "E", "F", "G", "H", "I", "J", "K", "L", "M",
      "N", "O", "P", "Q", "R", "S", "T", "U", "V", "W", "X", "Y", "Z">>

UpperChar(c) ==
    IF \E i \in 1..26 : LowerLetters[i] = c
    THEN UpperLetters[CHOOSE i \in 1..26 : LowerLetters[i] = c]
    ELSE c

LowerChar(c) ==
    IF \E i \in 1..26 : UpperLetters[i] = c
    THEN LowerLetters[CHOOSE i \in 1..26 : UpperLetters[i] = c]
    ELSE c

toUpperCase(s) == [i \in 1..Len(s) |-> UpperChar(s[i])]

toLowerCase(s) == [i \in 1..Len(s) |-> LowerChar(s[i])]

RECURSIVE DropWhileEnd(_, _)
DropWhileEnd(s, set) ==
    IF s = <<>> \/ s[Len(s)] \notin set THEN s
    ELSE DropWhileEnd(SubSeq(s, 1, Len(s) - 1), set)

trim(s) == DropWhileEnd(DropWhile(s, WhiteSpace), WhiteSpace)

\* s.includes(u)
includes(s, u) ==
    \E i \in 1..(Len(s) - Len(u) + 1) : SubSeq(s, i, i + Len(u) - 1) = u

\* ------------------------------------------------------------------------
\* limits.ts
\* ------------------------------------------------------------------------
MAX_ROWS == 100

MAX_FILE_SIZE_MB == 2

MAX_FILE_SIZE_BYTES == MAX_FILE_SIZE_MB * 1024 * 1024

\* ADMIN_MODE is read once from the environment; the state variable of the
\* same name is chosen at Init and never changes.
VARIABLE ADMIN_MODE

shouldEnforceLimit == ~ADMIN_MODE

\* a limit is the number v, or Infinity when inf holds
getEffectiveLimit(limit) ==
    [inf |-> ADMIN_MODE, v |-> IF ADMIN_MODE THEN 0 ELSE limit]

\* faulty variant: the comparison includes the limit itself
ExceedsLimit_AtLimit(k, limit) == ~limit.inf /\ k >= limit.v

\* k > limit
ExceedsLimit(k, limit) == ~limit.inf /\ k > limit.v

\* seq.slice(0, limit)
SliceTo(seq, limit) ==
    IF limit.inf \/ Len(seq) <= limit.v THEN seq
    ELSE SubSeq(seq, 1, limit.v)

\* ------------------------------------------------------------------------
\* processExcel.ts: the Row Materializer
\* ------------------------------------------------------------------------
\* A raw row is a function from column names to values.  A mapping field
\* is <<>> (null) or <<name>>.
Lookup(row, key) == IF key \in DOMAIN row THEN row[key] ELSE Undefined

\* columnMapping.f || ''
ColKey(m) == IF m = <<>> THEN "" ELSE m[1]

\* v ?? d
Coalesce(v, d) == IF IsNullish(v) THEN d ELSE v

\* JSON.parse(JSON.stringify(row)): undefined properties are dropped and
\* NaN becomes null
JsonValue(v) == IF v.t = "nan" THEN Null ELSE v

JsonRoundTrip(row) ==
    [k \in {c \in DOMAIN row : row[c].t # "undefined"} |-> JsonValue(row[k])]

\* the ParsedRow built from a raw row
ParsedRowOf(row, rowNumber, columnMapping) ==
    [rowNumber |-> rowNumber,
     partNumber |->
        Str(JsString(Coalesce(Lookup(row, ColKey(columnMapping.partNumber)),
                              Str(<<>>)))),
     quantity |-> parseQuantity(Lookup(row, ColKey(columnMapping.quantity))),
     description |->
        Str(JsString(Coalesce(Lookup(row, ColKey(columnMapping.description)),
                              Str(<<>>)))),
     unitPrice |-> parsePrice(Lookup(row, ColKey(columnMapping.unitPrice))),
     unitOfMeasure |->
        Str(JsString(Coalesce(Lookup(row,
                                     ColKey(columnMapping.unitOfMeasure)),
                              Str(<<>>)))),
     notes |->
        Str(JsString(Coalesce(Lookup(row, ColKey(columnMapping.notes)),
                              Str(<<>>)))),
     rawData |-> JsonRoundTrip(row)]

\* faulty variant: the row number is derived from the mapping's headerRow
MaterializeRow_FromHeaderRow(row, index, columnMapping) ==
    ParsedRowOf(row, index + 1 + columnMapping.headerRow, columnMapping)

\* the callback of rowsToProcess.map; index is zero-based
MaterializeRow(row, index, columnMapping) ==
    ParsedRowOf(row, index + 2, columnMapping)

Materialize(rawRows, columnMapping, maxRows) ==
    LET rowsToProcess == SliceTo(rawRows, maxRows)
    IN  [i \in 1..Len(rowsToProcess) |->
            MaterializeRow(rowsToProcess[i], i - 1, columnMapping)]

\* ------------------------------------------------------------------------
\* riskDetector.ts: row-based detectors
\* ------------------------------------------------------------------------
\* A RiskFlag keeps id, type, level, affectedRows (<<>> when absent) and
\* extractedValue (Undefined when absent); the fixed texts are left out.
Risk(id, type, level, affectedRows, extractedValue) ==
    [id |-> id, type |-> type, level |-> level,
     affectedRows |-> affectedRows, extractedValue |-> extractedValue]

\* grouping by the trimmed part number, without upper-casing
CanonicalPartNumber_CaseSensitive(row) == trim(row.partNumber.s)

\* row.partNumber && row.partNumber.trim()
HasPartNumber(row) == trim(row.partNumber.s) # <<>>

CanonicalPartNumber(row) == toUpperCase(trim(row.partNumber.s))

\* the keys of partNumberMap, in insertion order: a Map keeps a key at the
\* place of its first set
PartNumberKeys(rows) ==
    LET isFirst(i) ==
            /\ HasPartNumber(rows[i])
            /\ \A j \in 1..(i - 1) :
                  ~(HasPartNumber(rows[j])
                    /\ CanonicalPartNumber(rows[j]) = CanonicalPartNumber(rows[i]))
        firsts == SelectSeq([i \in 1..Len(rows) |-> i], isFirst)
    IN  [k \in 1..Len(firsts) |-> CanonicalPartNumber(rows[firsts[k]])]

RowNumbersOf(rows) == [i \in 1..Len(rows) |-> rows[i].rowNumber]

detectDuplicates(rows, now) ==
    LET keys == PartNumberKeys(rows)
        members(pn) ==
            RowNumbersOf(SelectSeq(rows,
                LAMBDA r : HasPartNumber(r) /\ CanonicalPartNumber(r) = pn))
        flag(pn) == Risk(<<"duplicate", pn, now>>, "duplicate", "medium",
                         members(pn), Str(pn))
        dups == SelectSeq(keys, LAMBDA pn : Len(members(pn)) > 1)
    IN  [i \in 1..Len(dups) |-> flag(dups[i])]

\* a > k for the number a = n / 10^e and the integer k
NumGreater(a, k) == a.t = "num" /\ a.n > k * Pow10(a.e)

\* Number.isFinite in place of Number.isInteger
IsInteger_AnyNumber(a) == a.t = "num"

\* Number.isInteger(a)
IsInteger(a) == a.t = "num" /\ a.e = 0

BulkUnits ==
    {<<"r", "e", "e", "l">>, <<"r", "o", "l", "l">>, <<"d", "r", "u", "m">>,
     <<"p", "a", "l", "l", "e", "t">>}

DiscreteUnits ==
    {<<"e", "a", "c", "h">>, <<"e", "a">>, <<"p", "c">>, <<"p", "c", "s">>}

\* `${row.quantity} ${row.unitOfMeasure}`
QuantityWithUnit(row) ==
    Str(JsString(row.quantity) \o <<" ">> \o row.unitOfMeasure.s)

\* the findings of one row, in emission order
UoMFlagsOfRow(row, now) ==
    IF row.unitOfMeasure.s = <<>> \/ row.quantity = Null THEN <<>>
    ELSE LET uom == trim(toLowerCase(row.unitOfMeasure.s))
             high == IF NumGreater(row.quantity, 10000)
                        /\ \E u \in BulkUnits : includes(uom, u)
                     THEN <<Risk(<<"uom-quantity", row.rowNumber, now>>,
                                 "uom_conflict", "medium",
                                 <<row.rowNumber>>, QuantityWithUnit(row))>>
                     ELSE <<>>
             frac == IF ~IsInteger(row.quantity)
                        /\ \E u \in DiscreteUnits : includes(uom, u)
                     THEN <<Risk(<<"uom-fraction", row.rowNumber, now>>,
                                 "uom_conflict", "low",
                                 <<row.rowNumber>>, QuantityWithUnit(row))>>
                     ELSE <<>>
         IN  high \o frac

RECURSIVE ConcatRange(_, _, _)
\* ss[lo] \o ... \o ss[hi]
ConcatRange(ss, lo, hi) ==
    IF lo > hi THEN <<>>
    ELSE IF lo = hi THEN ss[lo]
    ELSE ConcatRange(ss, lo, (lo + hi) \div 2)
            \o ConcatRange(ss, ((lo + hi) \div 2) + 1, hi)

detectUoMConflicts(rows, now) ==
    ConcatRange([i \in 1..Len(rows) |-> UoMFlagsOfRow(rows[i], now)],
                1, Len(rows))

\* the list as it is, not cut to its first k
FirstN_NoCap(seq, k) == seq

\* rows.slice(0, k)
FirstN(seq, k) == IF Len(seq) <= k THEN seq ELSE SubSeq(seq, 1, k)

\* faulty variant: the quantity finding carries the id of the part number
\* finding
detectMissingData_CopiedId(rows, now) ==
    (IF \E i \in 1..Len(rows) : trim(rows[i].partNumber.s) = <<>>
     THEN <<Risk(<<"missing-pn", now>>, "missing_data",
                 IF Len(SelectSeq(rows,
                        LAMBDA r : trim(r.partNumber.s) = <<>>)) > 5
                 THEN "high" ELSE "medium",
                 FirstN(RowNumbersOf(SelectSeq(rows,
                        LAMBDA r : trim(r.partNumber.s) = <<>>)), 10),
                 Undefined)>>
     ELSE <<>>)
    \o (IF \E i \in 1..Len(rows) : IsNullish(rows[i].quantity)
        THEN <<Risk(<<"missing-pn", now>>, "missing_data", "medium",
                    FirstN(RowNumbersOf(SelectSeq(rows,
                        LAMBDA r : IsNullish(r.quantity))), 10),
                    Undefined)>>
        ELSE <<>>)

detectMissingData(rows, now) ==
    LET rowsWithMissingPN ==
            RowNumbersOf(SelectSeq(rows, LAMBDA r : trim(r.partNumber.s) = <<>>))
        rowsWithMissingQty ==
            RowNumbersOf(SelectSeq(rows, LAMBDA r : IsNullish(r.quantity)))
        pn == IF Len(rowsWithMissingPN) > 0
              THEN <<Risk(<<"missing-pn", now>>, "missing_data",
                          IF Len(rowsWithMissingPN) > 5 THEN "high"
                          ELSE "medium",
                          FirstN(rowsWithMissingPN, 10), Undefined)>>
              ELSE <<>>
        qty == IF Len(rowsWithMissingQty) > 0
               THEN <<Risk(<<"missing-qty", now>>, "missing_data", "medium",
                           FirstN(rowsWithMissingQty, 10), Undefined)>>
               ELSE <<>>
    IN  pn \o qty

\* ------------------------------------------------------------------------
\* Regular expressions, as the detectors use them
\* ------------------------------------------------------------------------
\* A regular expression is a sequence of nodes:
\*   lit  - a literal string (all patterns carry the i flag)
\*   cls  - a character class repeated min..max times, greedy (max -1: no
\*          upper limit)
\*   grp  - a group of alternatives, each a regular expression; min 0 makes
\*          the group optional
\*   wb   - the word boundary \b
Lit(s) == [k |-> "lit", s |-> s, set |-> {}, min |-> 1, max |-> 1, opts |-> <<>>]

Cls(set, min, max) ==
    [k |-> "cls", s |-> <<>>, set |-> set, min |-> min, max |-> max, opts |-> <<>>]

Grp(opts, min) ==
    [k |-> "grp", s |-> <<>>, set |-> {}, min |-> min, max |-> 1, opts |-> opts]

WordBoundary ==
    [k |-> "wb", s |-> <<>>, set |-> {}, min |-> 0, max |-> 0, opts |-> <<>>]

Letters ==
    {LowerLetters[i] : i \in 1..26} \cup {UpperLetters[i] : i \in 1..26}

\* the class \w
WordChars == Letters \cup Digits \cup {"_"}

\* is position i of text (1-based, i = Len + 1 is the end) at a \b
IsWordBoundary(text, i) ==
    LET before == i > 1 /\ text[i - 1] \in WordChars
        after == i <= Len(text) /\ text[i] \in WordChars
    IN  before # after

\* <<hi, hi - 1, ..., lo>>
Descending(hi, lo) == [j \in 1..(hi - lo + 1) |-> hi - j + 1]

RECURSIVE FlattenSeq(_)
FlattenSeq(ss) == IF ss = <<>> THEN <<>> ELSE Head(ss) \o FlattenSeq(Tail(ss))

\* the characters a class matches under the i flag
CaseInsensitive(set) ==
    set \cup {UpperChar(c) : c \in set} \cup {LowerChar(c) : c \in set}

\* a literal matches without regard to case
LitEnds(n, text, i) ==
    IF i + Len(n.s) - 1 <= Len(text)
       /\ toLowerCase(SubSeq(text, i, i + Len(n.s) - 1)) = toLowerCase(n.s)
    THEN <<i + Len(n.s)>> ELSE <<>>

\* a quantifier takes at most max characters of a run (max = -1: any number)
Capped(run, max) == IF max >= 0 /\ run > max THEN max ELSE run

\* a greedy class tries the longest run first and gives back one character
\* at a time, down to min
RunEnds(i, most, min) ==
    IF most < min THEN <<>> ELSE Descending(i + most, i + min)

ClsEnds(n, text, i) ==
    RunEnds(i,
            Capped(Len(TakeWhile(SubSeq(text, i, Len(text)),
                                 CaseInsensitive(n.set))), n.max),
            n.min)

RECURSIVE MatchEnds(_, _, _)
RECURSIVE NodeEnds(_, _, _)
RECURSIVE ThenEnds(_, _, _)
\* the positions where a match of node n that starts at i may end, in the
\* order a backtracking matcher tries them
NodeEnds(n, text, i) ==
    CASE n.k = "lit" -> LitEnds(n, text, i)
      [] n.k = "cls" -> ClsEnds(n, text, i)
      [] n.k = "grp" ->
            FlattenSeq([j \in 1..Len(n.opts) |-> MatchEnds(n.opts[j], text, i)])
                \o (IF n.min = 0 THEN <<i>> ELSE <<>>)
      [] n.k = "wb" -> IF IsWordBoundary(text, i) THEN <<i>> ELSE <<>>

\* the ends of rest, matched from each of ends in turn
ThenEnds(rest, text, ends) ==
    FlattenSeq([j \in 1..Len(ends) |-> MatchEnds(rest, text, ends[j])])

MatchEnds(re, text, i) ==
    IF re = <<>> THEN <<i>>
    ELSE ThenEnds(Tail(re), text, NodeEnds(Head(re), text, i))

\* m when it is a match, and otherwise the next attempt
OrElse(m, otherwise) == IF m # <<>> THEN m ELSE otherwise

\* a match that starts at i and goes on along path
Prefixed(i, path, otherwise) ==
    IF path # <<>> THEN <<i>> \o path ELSE otherwise

RECURSIVE FirstPath(_, _, _)
RECURSIVE FirstGood(_, _, _, _)
\* parts is a sequence of regular expressions matched one after the other
\* from i; the result is <<>> when there is no match, and otherwise the
\* boundaries <<i, end of part 1, end of part 2, ...>> of the match the
\* backtracking matcher finds first
FirstPath(parts, text, i) ==
    IF parts = <<>> THEN <<i>>
    ELSE FirstGood(Tail(parts), text, i, MatchEnds(Head(parts), text, i))

\* the first of ends from which the rest of the parts match
FirstGood(rest, text, i, ends) ==
    IF ends = <<>> THEN <<>>
    ELSE Prefixed(i, FirstPath(rest, text, Head(ends)),
                  FirstGood(rest, text, i, Tail(ends)))

RECURSIVE MatchFrom(_, _, _)
\* the match at the leftmost start position from i on
MatchFrom(parts, text, i) ==
    IF i > Len(text) + 1 THEN <<>>
    ELSE OrElse(FirstPath(parts, text, i), MatchFrom(parts, text, i + 1))

\* text.match(parts): the boundaries of the leftmost match, or <<>>
RegexMatch(parts, text) == MatchFrom(parts, text, 1)

\* the text between boundaries a and b of a match
Between(text, m, a, b) == SubSeq(text, m[a], m[b] - 1)

\* ------------------------------------------------------------------------
\* schemas.ts and riskDetector.ts: text-based detectors
\* ------------------------------------------------------------------------
\* the entries of INCOTERMS_DATA, in insertion order
INCOTERMS_DATA ==
    <<[term |-> <<"E", "X", "W">>, riskLevel |-> "low"],
      [term |-> <<"F", "C", "A">>, riskLevel |-> "low"],
      [term |-> <<"F", "A", "S">>, riskLevel |-> "medium"],
      [term |-> <<"F", "O", "B">>, riskLevel |-> "medium"],
      [term |-> <<"C", "F", "R">>, riskLevel |-> "medium"],
      [term |-> <<"C", "I", "F">>, riskLevel |-> "medium"],
      [term |-> <<"C", "P", "T">>, riskLevel |-> "medium"],
      [term |-> <<"C", "I", "P">>, riskLevel |-> "high"],
      [term |-> <<"D", "A", "P">>, riskLevel |-> "high"],
      [term |-> <<"D", "P", "U">>, riskLevel |-> "high"],
      [term |-> <<"D", "D", "P">>, riskLevel |-> "critical"]>>

\* \s* and \s+
Ws0 == Cls(WhiteSpace, 0, -1)

Ws1 == Cls(WhiteSpace, 1, -1)

\* (\d+\.?\d*)
NumberGroup == <<Cls(Digits, 1, -1), Cls({"."}, 0, 1), Cls(Digits, 0, -1)>>

\* \bTERM\s*[\-:]?\s*([A-Za-z\s,]+)?  ("EN_DASH" is the en dash, one character)
IncotermRegex(term) ==
    <<<<WordBoundary, Lit(term), Ws0, Cls({"-", "EN_DASH", ":"}, 0, 1), Ws0,
        Grp(<<<<Cls(Letters \cup WhiteSpace \cup {","}, 1, -1)>>>>, 0)>>>>

\* /delivered\s+duty\s+paid/i
DdpPhraseRegex ==
    <<<<Lit(<<"d", "e", "l", "i", "v", "e", "r", "e", "d">>), Ws1,
        Lit(<<"d", "u", "t", "y">>), Ws1, Lit(<<"p", "a", "i", "d">>)>>>>

\* the risk pushed for an entry whose regex matched (m = matches)
IncotermRisk(info, upperText, now, m) ==
    IF m = <<>> THEN <<>>
    ELSE <<Risk(<<"incoterm", info.term, now>>, "incoterms", info.riskLevel,
                <<>>, Str(trim(Between(upperText, m, 1, 2))))>>

RECURSIVE IncotermFlags(_, _, _)
\* the loop over Object.entries(INCOTERMS_DATA), entries k..11
IncotermFlags(k, upperText, now) ==
    IF k > Len(INCOTERMS_DATA) THEN <<>>
    ELSE IncotermRisk(INCOTERMS_DATA[k], upperText, now,
                      RegexMatch(IncotermRegex(INCOTERMS_DATA[k].term),
                                 upperText))
            \o IncotermFlags(k + 1, upperText, now)

\* the phrase check without the test of the findings already pushed
WithDdpPhrase_NoDedup(rawText, now, risks) ==
    IF RegexMatch(DdpPhraseRegex, rawText) # <<>>
    THEN Append(risks,
                Risk(<<"incoterm-ddp-phrase", now>>, "incoterms",
                     "critical", <<>>,
                     Str(<<"D", "e", "l", "i", "v", "e", "r", "e", "d", " ", "D", "u", "t", "y", " ", "P", "a", "i", "d">>)))
    ELSE risks

\* the check for the phrase "Delivered Duty Paid" that follows the loop
WithDdpPhrase(rawText, now, risks) ==
    IF RegexMatch(DdpPhraseRegex, rawText) # <<>>
       /\ ~\E i \in 1..Len(risks) :
             includes(risks[i].extractedValue.s, <<"D", "D", "P">>)
    THEN Append(risks,
                Risk(<<"incoterm-ddp-phrase", now>>, "incoterms",
                     "critical", <<>>,
                     Str(<<"D", "e", "l", "i", "v", "e", "r", "e", "d", " ", "D", "u", "t", "y", " ", "P", "a", "i", "d">>)))
    ELSE risks

detectIncoterms(rawText, now) ==
    WithDdpPhrase(rawText, now, IncotermFlags(1, toUpperCase(rawText), now))

\* the six ldPatterns, in order
ldPatterns ==
    <<<<Lit(<<"l", "i", "q", "u", "i", "d", "a", "t", "e", "d">>), Ws1, Lit(<<"d", "a", "m", "a", "g", "e", "s">>)>>,
      <<Lit(<<"p", "e", "n", "a", "l", "t", "y">>), Ws1, Grp(<<<<Lit(<<"f", "o", "r">>)>>, <<Lit(<<"o", "f">>)>>>>, 0), Ws0,
        Grp(<<<<Lit(<<"l", "a", "t", "e">>)>>, <<Lit(<<"d", "e", "l", "a", "y">>)>>>>, 1)>>,
      <<Lit(<<"d", "e", "l", "a", "y">>), Ws1, Lit(<<"p", "e", "n", "a", "l", "t", "y">>)>>,
      NumberGroup \o <<Ws0, Lit(<<"%">>), Ws0, Grp(<<<<Lit(<<"p", "e", "r">>)>>, <<Lit(<<"e", "a", "c", "h">>)>>>>, 1), Ws0,
        Grp(<<<<Lit(<<"d", "a", "y">>)>>, <<Lit(<<"w", "e", "e", "k">>)>>>>, 1)>>,
      <<Lit(<<"p", "e", "r">>), Ws0, Lit(<<"d", "i", "e", "m">>), Ws0, Lit(<<"p", "e", "n", "a", "l", "t", "y">>)>>,
      <<Lit(<<"l", "a", "t", "e">>), Ws1, Lit(<<"d", "e", "l", "i", "v", "e", "r", "y">>), Ws1,
        Grp(<<<<Lit(<<"p", "e", "n", "a", "l", "t", "y">>)>>, <<Lit(<<"c", "h", "a", "r", "g", "e">>)>>, <<Lit(<<"f", "e", "e">>)>>>>, 1)>>>>

\* /(\d+\.?\d*)\s*%\s*(per|each)?\s*(day|week|month)?/i, group 1 apart
PercentRegex ==
    <<NumberGroup,
      <<Ws0, Lit(<<"%">>), Ws0, Grp(<<<<Lit(<<"p", "e", "r">>)>>, <<Lit(<<"e", "a", "c", "h">>)>>>>, 0), Ws0,
        Grp(<<<<Lit(<<"d", "a", "y">>)>>, <<Lit(<<"w", "e", "e", "k">>)>>, <<Lit(<<"m", "o", "n", "t", "h">>)>>>>, 0)>>>>

\* /(?:cap|maximum|max|up\s+to|not\s+(?:to\s+)?exceed)\s*(?:of\s*)?(\d+\.?\d*)\s*%/i
CapRegex ==
    <<<<Grp(<<<<Lit(<<"c", "a", "p">>)>>,
              <<Lit(<<"m", "a", "x", "i", "m", "u", "m">>)>>,
              <<Lit(<<"m", "a", "x">>)>>,
              <<Lit(<<"u", "p">>), Ws1, Lit(<<"t", "o">>)>>,
              <<Lit(<<"n", "o", "t">>), Ws1,
                Grp(<<<<Lit(<<"t", "o">>), Ws1>>>>, 0),
                Lit(<<"e", "x", "c", "e", "e", "d">>)>>>>, 1),
        Ws0, Grp(<<<<Lit(<<"o", "f">>), Ws0>>>>, 0)>>,
      NumberGroup,
      <<Ws0, Lit(<<"%">>)>>>>

\* a >= 1 and a >= 0.5 for the number a = n / 10^e
NumAtLeastOne(a) == a.t = "num" /\ a.n >= Pow10(a.e)

NumAtLeastHalf(a) == a.t = "num" /\ 2 * a.n >= Pow10(a.e)

RECURSIVE FirstLdMatch(_, _)
\* the loop over ldPatterns from pattern k on: the match of the first
\* pattern that matches (the loop breaks there), or <<>>
FirstLdMatch(rawText, k) ==
    IF k > Len(ldPatterns) THEN <<>>
    ELSE OrElse(RegexMatch(<<ldPatterns[k]>>, rawText),
                FirstLdMatch(rawText, k + 1))

\* level: "high", replaced by the percentage's level when there is a
\* percentMatch, replaced by "critical" when there is a cap above 10
LdLevel(percentMatch, percentage, capMatch, cap) ==
    IF capMatch # <<>> /\ NumGreater(cap, 10) THEN "critical"
    ELSE IF percentMatch = <<>> THEN "high"
    ELSE IF NumAtLeastOne(percentage) THEN "critical"
    ELSE IF NumAtLeastHalf(percentage) THEN "high"
    ELSE "medium"

\* the body of the loop for the pattern that matched
LdRisk(rawText, now, rnd, match, percentMatch, capMatch) ==
    IF match = <<>> THEN <<>>
    ELSE <<Risk(<<"ld", now, rnd>>, "liquidated_damages",
                LdLevel(percentMatch,
                        ParseFloat(Between(rawText, percentMatch, 1, 2)),
                        capMatch,
                        ParseFloat(Between(rawText, capMatch, 2, 3))),
                <<>>,
                Str(IF percentMatch # <<>>
                    THEN Between(rawText, percentMatch, 1, 3)
                    ELSE Between(rawText, match, 1, 2)))>>

\* the loop without its break: one finding for every pattern that matches
detectLiquidatedDamages_NoBreak(rawText, now, rnd) ==
    FlattenSeq([k \in 1..Len(ldPatterns) |->
                  LdRisk(rawText, now, rnd,
                         RegexMatch(<<ldPatterns[k]>>, rawText),
                         RegexMatch(PercentRegex, rawText),
                         RegexMatch(CapRegex, rawText))])

detectLiquidatedDamages(rawText, now, rnd) ==
    LdRisk(rawText, now, rnd, FirstLdMatch(rawText, 1),
           RegexMatch(PercentRegex, rawText), RegexMatch(CapRegex, rawText))

\* ------------------------------------------------------------------------
\* riskDetector.ts: the aggregator
\* ------------------------------------------------------------------------
levelOrder(level) ==
    CASE level = "critical" -> 0 [] level = "high" -> 1
      [] level = "medium" -> 2 [] level = "low" -> 3

\* s.reverse()
Reverse(s) == [i \in 1..Len(s) |-> s[Len(s) - i + 1]]

\* a sort that is not stable: findings of one level come out in reverse
SortByLevel_TiesReversed(risks) ==
    ConcatRange([k \in 1..4 |->
                    Reverse(SelectSeq(risks,
                                LAMBDA r : levelOrder(r.level) = k - 1))],
                1, 4)

\* risks.sort((a, b) => levelOrder[a.level] - levelOrder[b.level]):
\* Array.prototype.sort is stable, so the result is the risks of order 0 in
\* their former order, then those of order 1, and so on
SortByLevel(risks) ==
    ConcatRange([k \in 1..4 |->
                    SelectSeq(risks, LAMBDA r : levelOrder(r.level) = k - 1)],
                1, 4)

analyzeAllRisks(rawText, rows, now, rnd) ==
    LET allRisks == detectIncoterms(rawText, now)
                        \o detectLiquidatedDamages(rawText, now, rnd)
                        \o detectDuplicates(rows, now)
                        \o detectUoMConflicts(rows, now)
                        \o detectMissingData(rows, now)
    IN  SortByLevel(allRisks)

\* ------------------------------------------------------------------------
\* processExcel.ts: processExcelFile
\* ------------------------------------------------------------------------
NullMapping ==
    [partNumber |-> <<>>, quantity |-> <<>>, description |-> <<>>,
     unitPrice |-> <<>>, unitOfMeasure |-> <<>>, notes |-> <<>>,
     terms |-> <<>>, headerRow |-> 1]

CountLevel(risks, level) == Len(SelectSeq(risks, LAMBDA r : r.level = level))

\* the tallies taken before the row limit warning is put in front
Summary_BeforeWarning(rows, risks) ==
    [totalRows |-> Len(rows),
     validRows |-> Len(SelectSeq(rows, LAMBDA r : trim(r.partNumber.s) # <<>>)),
     totalRisks |-> Len(SelectSeq(risks, LAMBDA r : r.type # "general")),
     criticalRisks |-> CountLevel(SelectSeq(risks, LAMBDA r : r.type # "general"), "critical"),
     highRisks |-> CountLevel(SelectSeq(risks, LAMBDA r : r.type # "general"), "high"),
     mediumRisks |-> CountLevel(SelectSeq(risks, LAMBDA r : r.type # "general"), "medium"),
     lowRisks |-> CountLevel(SelectSeq(risks, LAMBDA r : r.type # "general"), "low")]

Summary(rows, risks) ==
    [totalRows |-> Len(rows),
     validRows |-> Len(SelectSeq(rows, LAMBDA r : trim(r.partNumber.s) # <<>>)),
     totalRisks |-> Len(risks),
     criticalRisks |-> CountLevel(risks, "critical"),
     highRisks |-> CountLevel(risks, "high"),
     mediumRisks |-> CountLevel(risks, "medium"),
     lowRisks |-> CountLevel(risks, "low")]

\* the three early results: no file, parse error, exception caught
FailureAnalysis(fileName, id) ==
    [success |-> FALSE, fileName |-> fileName, columnMapping |-> NullMapping,
     rows |-> <<>>,
     risks |-> <<Risk(<<id>>, "general", "critical", <<>>, Undefined)>>,
     summary |-> [totalRows |-> 0, validRows |-> 0, totalRisks |-> 1,
                  criticalRisks |-> 1, highRisks |-> 0, mediumRisks |-> 0,
                  lowRisks |-> 0]]

RowLimitWarning ==
    Risk(<<"warning-row-limit">>, "general", "medium", <<>>, Undefined)

\* risks.unshift(the row limit warning) when rows were cut off
\* faulty variant: risks.push in place of risks.unshift
WithRowLimitWarning_Appended(u, risks) ==
    IF ExceedsLimit(Len(u.rows), getEffectiveLimit(MAX_ROWS))
       /\ shouldEnforceLimit
    THEN risks \o <<RowLimitWarning>>
    ELSE risks

WithRowLimitWarning(u, risks) ==
    IF ExceedsLimit(Len(u.rows), getEffectiveLimit(MAX_ROWS))
       /\ shouldEnforceLimit
    THEN <<RowLimitWarning>> \o risks
    ELSE risks

\* the result returned for parsed rows and their risks
SuccessAnalysis(u, parsedRows, risks) ==
    [success |-> TRUE, fileName |-> u.fileName,
     columnMapping |-> u.columnMapping, rows |-> parsedRows,
     risks |-> risks, summary |-> Summary(parsedRows, risks)]

\* risk detection, the warning and the summary, once rows are parsed
Processed(u, parsedRows, now, rnd) ==
    SuccessAnalysis(u, parsedRows,
        WithRowLimitWarning(u,
            analyzeAllRisks(u.rawText, parsedRows, now, rnd)))

\* processExcelFile without the file size check
processExcelFile_NoSizeCheck(u, now, rnd) ==
    IF ~u.hasFile THEN FailureAnalysis("", "error-no-file")
    ELSE IF u.throws THEN FailureAnalysis(u.fileName, "error-processing")
    ELSE IF ~u.parseOk THEN FailureAnalysis(u.fileName, "error-parse")
    ELSE Processed(u, Materialize(u.rows, u.columnMapping,
                                  getEffectiveLimit(MAX_ROWS)), now, rnd)

\* An upload is what formData and the collaborators outside this module
\* deliver: whether a file is present, its size and name, whether reading
\* it throws, the result of parseExcelBuffer (parseOk, rows, rawText) and
\* the column mapping the AI or the fallback produced.
processExcelFile(u, now, rnd) ==
    IF ~u.hasFile THEN FailureAnalysis("", "error-no-file")
    ELSE IF shouldEnforceLimit /\ u.size > MAX_FILE_SIZE_BYTES
    THEN FailureAnalysis(u.fileName, "error-processing")
    ELSE IF u.throws THEN FailureAnalysis(u.fileName, "error-processing")
    ELSE IF ~u.parseOk THEN FailureAnalysis(u.fileName, "error-parse")
    ELSE Processed(u, Materialize(u.rows, u.columnMapping,
                                  getEffectiveLimit(MAX_ROWS)), now, rnd)

\* ------------------------------------------------------------------------
\* State
\* ------------------------------------------------------------------------
VARIABLES
    upload,               \* what the user uploads (see processExcelFile)
    analysis,             \* page.tsx: <<>> (null) or <<the QuoteAnalysis>>
    heap,                 \* the row arrays of the server, by reference
    inRequest,            \* a chat POST is being served
    currentRows,          \* route POST: reference of currentRows
    requestRows,          \* route POST: reference of analysis.rows as parsed
    appliedRemediations,  \* route POST: the session remediation list
    toolResults,          \* the tool results of the request, in call order
    correctedFilesStore,  \* excelExport.ts: token -> stored entry
    issued,               \* token -> time of issue (history)
    retrieved,            \* tokens a GET has served (history)
    now,                  \* Date.now()
    lastCall,             \* the last tool call or GET, with what it was given
    steps                 \* counters that bound the run

vars ==
    <<ADMIN_MODE, upload, analysis, heap, inRequest, currentRows, requestRows,
      appliedRemediations, toolResults, correctedFilesStore, issued,
      retrieved, now, lastCall, steps>>

sessionVars ==
    <<heap, inRequest, currentRows, requestRows, appliedRemediations,
      toolResults, correctedFilesStore, issued, retrieved, now, lastCall,
      steps>>

\* ------------------------------------------------------------------------
\* Inputs of the materializer specification
\* ------------------------------------------------------------------------
\* how far past MAX_ROWS the longest raw row list goes
MaxExtra == 3

\* the number of short raw row lists (lengths 0..MaxShort)
MaxShort == 3

RawCells ==
    <<[c \in {"Part", "Qty", "Desc", "Price", "UoM", "Notes"} |->
        CASE c = "Part" -> Str(<<"A", "-", "1">>)
          [] c = "Qty" -> Str(<<"5">>)
          [] c = "Desc" -> Str(<<"d">>)
          [] c = "Price" -> Str(<<"$", "1", ",", "2", "3", "4", ".", "5", "0">>)
          [] c = "UoM" -> Str(<<"e", "a">>)
          [] c = "Notes" -> Str(<<>>)],
      [c \in {"Part", "Qty", "Desc", "Price", "UoM", "Notes"} |->
        CASE c = "Part" -> Str(<<" ", "a", "-", "1", " ">>)
          [] c = "Qty" -> Str(<<>>)
          [] c = "Desc" -> Str(<<>>)
          [] c = "Price" -> Str(<<"(", "1", "0", "0", ")">>)
          [] c = "UoM" -> Str(<<"R", "e", "e", "l">>)
          [] c = "Notes" -> Str(<<"n">>)],
      [c \in {"Part", "Qty", "Desc", "Price", "UoM", "Notes"} |->
        CASE c = "Part" -> Str(<<>>)
          [] c = "Qty" -> Str(<<"a", "b", "c">>)
          [] c = "Desc" -> Str(<<>>)
          [] c = "Price" -> Str(<<>>)
          [] c = "UoM" -> Str(<<>>)
          [] c = "Notes" -> Str(<<>>)],
      [c \in {"Part", "Qty", "Desc", "Price", "UoM", "Notes"} |->
        CASE c = "Part" -> Str(<<"B">>)
          [] c = "Qty" -> Str(<<"1", "0", ",", "0", "0", "1">>)
          [] c = "Desc" -> Str(<<"x">>)
          [] c = "Price" -> Str(<<"2", ".", "5">>)
          [] c = "UoM" -> Str(<<"r", "e", "e", "l">>)
          [] c = "Notes" -> Str(<<>>)],
      [c \in {"Part", "Qty", "Desc", "Price", "UoM", "Notes"} |->
        CASE c = "Part" -> Str(<<"b">>)
          [] c = "Qty" -> Str(<<"2", ".", "5">>)
          [] c = "Desc" -> Str(<<>>)
          [] c = "Price" -> Str(<<"-", "3">>)
          [] c = "UoM" -> Str(<<"e", "a", "c", "h">>)
          [] c = "Notes" -> Str(<<"n">>)],
      [c \in {"Part", "Qty", "UoM", ""} |->
        CASE c = "Part" -> Int0(7)
          [] c = "Qty" -> Int0(0)
          [] c = "UoM" -> Str(<<"p", "c">>)
          [] c = "" -> Str(<<"x">>)]>>

\* the orders in which the raw cells repeat down a sheet
CellPatterns == {<<1>>, <<3>>, <<1, 2, 3>>, <<4, 5, 6>>, <<6, 2>>}

RawRowsOf(n, pat) ==
    [i \in 1..n |-> RawCells[pat[((i - 1) % Len(pat)) + 1]]]

RowCounts ==
    (0..MaxShort) \cup ((MAX_ROWS - 1)..(MAX_ROWS + 1)) \cup {MAX_ROWS + MaxExtra}

FullMapping(headerRow) ==
    [partNumber |-> <<"Part">>, quantity |-> <<"Qty">>,
     description |-> <<"Desc">>, unitPrice |-> <<"Price">>,
     unitOfMeasure |-> <<"UoM">>, notes |-> <<"Notes">>, terms |-> <<>>,
     headerRow |-> headerRow]

\* a mapping that names a column no row has, and the column ""
StrayMapping ==
    [partNumber |-> <<"">>, quantity |-> <<"Quantity">>,
     description |-> <<>>, unitPrice |-> <<"Qty">>,
     unitOfMeasure |-> <<"UoM">>, notes |-> <<>>, terms |-> <<"Notes">>,
     headerRow |-> 3]

Mappings == {FullMapping(1), FullMapping(2), NullMapping, StrayMapping}

RawTexts ==
    {<<>>,
     <<"F", "O", "B", " ", "S", "h", "a", "n", "g", "h", "a", "i">>,
     <<"d", "d", "p", " ", "D", "e", "l", "i", "v", "e", "r", "e", "d", " ", " ", "D", "u", "t", "y", " ", "P", "a", "i", "d">>,
     <<"l", "i", "q", "u", "i", "d", "a", "t", "e", "d", " ", "d", "a", "m", "a", "g", "e", "s", " ", "2", "%", " ", "p", "e", "r", " ", "d", "a", "y">>,
     <<"d", "e", "l", "a", "y", " ", "p", "e", "n", "a", "l", "t", "y", " ", "m", "a", "x", " ", "1", "5", "%">>}

OkUpload(rows, mapping, text) ==
    [hasFile |-> TRUE, size |-> 1024, fileName |-> "bom.xlsx",
     throws |-> FALSE, parseOk |-> TRUE, rows |-> rows, rawText |-> text,
     columnMapping |-> mapping]

BadUploads ==
    {[OkUpload(<<>>, NullMapping, <<>>) EXCEPT !.hasFile = FALSE],
     [OkUpload(<<>>, NullMapping, <<>>) EXCEPT !.size = MAX_FILE_SIZE_BYTES + 1],
     [OkUpload(<<>>, NullMapping, <<>>) EXCEPT !.size = MAX_FILE_SIZE_BYTES],
     [OkUpload(<<>>, NullMapping, <<>>) EXCEPT !.throws = TRUE],
     [OkUpload(<<>>, NullMapping, <<>>) EXCEPT !.parseOk = FALSE]}

MatUploads ==
    {OkUpload(RawRowsOf(n, pat), m, txt) :
        n \in RowCounts, pat \in CellPatterns, m \in Mappings,
        txt \in RawTexts}
    \cup BadUploads

\* ------------------------------------------------------------------------
\* Inputs of the text detector specification
\* ------------------------------------------------------------------------
\* texts for the incoterms and liquidated damages detectors, beside RawTexts
MoreTexts ==
    {<<"d", "e", "l", "a", "y", " ", "p", "e", "n", "a", "l", "t", "y", " ", "m", "a", "x", " ", "5", "%">>,
     <<"l", "a", "t", "e", " ", "d", "e", "l", "i", "v", "e", "r", "y", " ", "f", "e", "e", " ", "0", ".", "2", "%", " ", "p", "e", "r", " ", "w", "e", "e", "k">>,
     <<"p", "e", "n", "a", "l", "t", "y", " ", "f", "o", "r", " ", "d", "e", "l", "a", "y", " ", "0", ".", "5", "%", " ", "e", "a", "c", "h", " ", "d", "a", "y">>,
     <<"p", "e", "r", " ", "d", "i", "e", "m", " ", "p", "e", "n", "a", "l", "t", "y">>,
     <<"f", "a", "s", "t", "e", "n", "e", "r">>,
     <<"f", "o", "b", " ", "F", "O", "B", ":", " ", "P", "o", "r", "t", ",", " ", "c", "i", "f">>,
     <<"D", "e", "l", "i", "v", "e", "r", "e", "d", " ", "D", "u", "t", "y", " ", "P", "a", "i", "d">>,
     <<"E", "X", "W", " ", "D", "D", "P", " ", "p", "e", "n", "a", "l", "t", "y", " ", "o", "f", " ", "l", "a", "t", "e">>,
     <<"1", "5", "%", " ", "d", "i", "s", "c", "o", "u", "n", "t">>}

TextPatterns == {<<1, 2, 3>>, <<4, 5, 6>>}

TextUploads ==
    {OkUpload(RawRowsOf(n, pat), FullMapping(1), txt) :
        n \in 0..MaxShort, pat \in TextPatterns,
        txt \in RawTexts \cup MoreTexts}

\* ------------------------------------------------------------------------
\* excelExport.ts
\* ------------------------------------------------------------------------
\* 10 * 60 * 1000
CLEANUP_INTERVAL_MS == 600000

\* cleanupOldEntries with the comparison inverted: the entries still within
\* the interval are the ones deleted
cleanupOldEntries_Inverted(store, t) ==
    [tok \in {k \in DOMAIN store : t - store[k].createdAt > CLEANUP_INTERVAL_MS}
        |-> store[tok]]

\* the store after cleanupOldEntries() at time t
cleanupOldEntries(store, t) ==
    [tok \in {k \in DOMAIN store : ~(t - store[k].createdAt > CLEANUP_INTERVAL_MS)}
        |-> store[tok]]

\* generateToken(): tokens are opaque and never repeat; the model numbers
\* them in the order of issue
generateToken(issuedSoFar) == Cardinality(DOMAIN issuedSoFar) + 1

\* the store after storeFixedRows(rows, columnMapping, fileName,
\* remediations) at time t; rows is the reference of the array passed in
storeFixedRows(store, token, rows, columnMapping, fileName, remediations, t) ==
    LET cleaned == cleanupOldEntries(store, t)
        entry == [rows |-> rows, columnMapping |-> columnMapping,
                  fileName |-> fileName, remediations |-> remediations,
                  createdAt |-> t]
    IN  [tok \in DOMAIN cleaned \cup {token} |->
            IF tok = token THEN entry ELSE cleaned[tok]]

\* getStoredData(token): <<>> (null) or <<the stored data>>
getStoredData(store, token) ==
    IF token \notin DOMAIN store THEN <<>>
    ELSE <<[rows |-> store[token].rows,
            columnMapping |-> store[token].columnMapping,
            fileName |-> store[token].fileName]>>

\* findIndex read as if a miss were the last element (index -1 taken from
\* the end)
FindIndex_LastOnMiss(seq, n) ==
    IF \E i \in 1..Len(seq) : seq[i].rowNumber = n
    THEN CHOOSE i \in 1..Len(seq) :
            /\ seq[i].rowNumber = n
            /\ \A j \in 1..(i - 1) : seq[j].rowNumber # n
    ELSE Len(seq)

\* rows.find(f => f.rowNumber === n), as the index of the first hit or 0
FindIndex(seq, n) ==
    IF \E i \in 1..Len(seq) : seq[i].rowNumber = n
    THEN CHOOSE i \in 1..Len(seq) :
            /\ seq[i].rowNumber = n
            /\ \A j \in 1..(i - 1) : seq[j].rowNumber # n
    ELSE 0

\* applyQuantityFixes(rows, fixes).fixedRows
FixedRows(rows, fixes) ==
    [i \in 1..Len(rows) |->
        IF FindIndex(fixes, rows[i].rowNumber) # 0
        THEN [rows[i] EXCEPT !.quantity =
                fixes[FindIndex(fixes, rows[i].rowNumber)].quantity]
        ELSE rows[i]]

\* applyQuantityFixes(rows, fixes).remediations
FixRemediations(rows, fixes) ==
    LET hit == SelectSeq(rows, LAMBDA r : FindIndex(fixes, r.rowNumber) # 0)
    IN  [i \in 1..Len(hit) |->
            [rowNumber |-> hit[i].rowNumber, field |-> "quantity",
             oldValue |-> hit[i].quantity,
             newValue |-> fixes[FindIndex(fixes, hit[i].rowNumber)].quantity,
             reason |-> fixes[FindIndex(fixes, hit[i].rowNumber)].reason]]

\* row.quantity === 0
IsZero(v) == v.t = "num" /\ v.n = 0

findMissingQuantities(rows) ==
    RowNumbersOf(SelectSeq(rows,
        LAMBDA r : IsNullish(r.quantity) \/ IsZero(r.quantity)))

\* ------------------------------------------------------------------------
\* The chat route: request state and tools
\* ------------------------------------------------------------------------
Fields ==
    {"quantity", "unitPrice", "description", "notes", "partNumber",
     "unitOfMeasure"}

NumericFields == {"quantity", "unitPrice"}

\* a row as JSON carries it: NaN becomes null
JsonRow(r) ==
    [rowNumber |-> r.rowNumber, partNumber |-> JsonValue(r.partNumber),
     quantity |-> JsonValue(r.quantity),
     description |-> JsonValue(r.description),
     unitPrice |-> JsonValue(r.unitPrice),
     unitOfMeasure |-> JsonValue(r.unitOfMeasure),
     notes |-> JsonValue(r.notes), rawData |-> r.rawData]

JsonRows(rows) == [i \in 1..Len(rows) |-> JsonRow(rows[i])]

\* analysis?.rows ?? [], analysis?.columnMapping ?? {...}, analysis?.fileName
RequestRowsOf(a) == IF a = <<>> THEN <<>> ELSE JsonRows(a[1].rows)

currentColumnMapping ==
    IF analysis = <<>> THEN NullMapping ELSE analysis[1].columnMapping

currentFileName ==
    IF analysis = <<>> THEN "corrected_data.xlsx" ELSE analysis[1].fileName

NoCall ==
    [op |-> "none", args |-> <<>>, result |-> <<>>, input |-> 0,
     inputBefore |-> <<>>, remediationsBefore |-> <<>>,
     prev |-> [op |-> "none", args |-> <<>>, result |-> <<>>]]

\* what a tool call leaves in lastCall: the array it was given (reference
\* and contents at the time of the call), the session list before it, and
\* the call before it
Call(op, args, result) ==
    [op |-> op, args |-> args, result |-> result, input |-> currentRows,
     inputBefore |-> heap[currentRows],
     remediationsBefore |-> appliedRemediations,
     prev |-> [op |-> lastCall.op, args |-> lastCall.args,
               result |-> lastCall.result]]

\* the tool stores a download artifact for array `rows` and returns `result`
StoreAndReturn(op, args, result, rows, remediations) ==
    LET token == generateToken(issued)
    IN  /\ correctedFilesStore' =
              storeFixedRows(correctedFilesStore, token, rows,
                             currentColumnMapping, currentFileName,
                             remediations, now)
        /\ issued' = [tok \in DOMAIN issued \cup {token} |->
                        IF tok = token THEN now ELSE issued[tok]]
        /\ lastCall' = Call(op, args, [result EXCEPT !.token = token])
        /\ toolResults' =
              Append(toolResults,
                     [toolName |-> op,
                      result |-> [result EXCEPT !.token = token]])

\* the result of update_cell_value when no row has the row number
NotFound(rowNumber) ==
    [success |-> FALSE,
     message |-> <<"Row", rowNumber, "not found in the data.">>]

\* the coercion of update_cell_value for quantity and unitPrice
CoerceNumber(newValue) ==
    IF IsNumberType(newValue) THEN newValue
    ELSE ParseFloat(JsString(newValue))

\* the new value stored as it came, without coercion
UpdatedRow_Uncoerced(row, field, newValue) == [row EXCEPT ![field] = newValue]

\* the row update_cell_value puts in place of row
UpdatedRow(row, field, newValue) ==
    IF field \in NumericFields
    THEN [row EXCEPT ![field] = CoerceNumber(newValue)]
    ELSE [row EXCEPT ![field] = Str(JsString(newValue))]

\* faulty variant: the empty string counts as data
IsFilled_NullOnly(row, field) == row[field] # Null

\* the test of clear_column: row[field] !== null && row[field] !== ''
IsFilled(row, field) == row[field] # Null /\ row[field] # Str(<<>>)

ClearedRow(row, field) ==
    IF IsFilled(row, field)
    THEN [row EXCEPT ![field] =
            IF field \in NumericFields THEN Null ELSE Str(<<>>)]
    ELSE row

ClearedRows(rows, field) == [i \in 1..Len(rows) |-> ClearedRow(rows[i], field)]

AffectedCount(rows, field) ==
    Len(SelectSeq(rows, LAMBDA r : IsFilled(r, field)))

\* faulty variant: only the first requested row number is deleted
RowsAfterDelete_FirstOnly(rows, rowNumbers) ==
    SelectSeq(rows, LAMBDA r : rowNumbers = <<>> \/ rowNumbers[1] # r.rowNumber)

\* faulty variant: the rows that remain are numbered anew
RowsAfterDelete_Renumbered(rows, rowNumbers) ==
    LET kept == SelectSeq(rows,
                    LAMBDA r : ~\E j \in 1..Len(rowNumbers) :
                                    rowNumbers[j] = r.rowNumber)
    IN  [i \in 1..Len(kept) |-> [kept[i] EXCEPT !.rowNumber = i + 1]]

\* currentRows.filter(r => !rowNumbers.includes(r.rowNumber))
RowsAfterDelete(rows, rowNumbers) ==
    SelectSeq(rows,
        LAMBDA r : ~\E j \in 1..Len(rowNumbers) : rowNumbers[j] = r.rowNumber)

\* ------------------------------------------------------------------------
\* Bounds and inputs of the session specification
\* ------------------------------------------------------------------------
\* tool calls in one run of the chat session
MaxCalls == 2

\* tool calls, clock advances and downloads in one run of the download
\* store, taken together
MaxStoreEvents == 3

\* chat requests in one run
MaxRequests == 2

\* fix_missing_quantities: <<defaultQuantity, affectedRowNumbers>>, the
\* latter <<>> when omitted and <<the list>> otherwise
FixChoices == {<<Int0(5), <<>>>>, <<Int0(1), <<<<3, 9>>>>>>}

\* update_cell_value: <<rowNumber, field, newValue>>
UpdateChoices ==
    {<<2, "quantity", Str(<<"a", "b", "c">>)>>,
     <<2, "unitPrice", Int0(4)>>,
     <<3, "quantity", Str(<<"7", ".", "5">>)>>,
     <<3, "notes", Int0(4)>>,
     <<9, "quantity", Int0(4)>>}

DeleteChoices == {<<3>>, <<4, 2, 9>>}

ClearChoices == {"quantity", "notes"}

\* the tool calls of the download store specification
StoreUpdateChoices == {<<2, "unitPrice", Int0(4)>>}

StoreDeleteChoices == {<<3>>}

TickChoices == {CLEANUP_INTERVAL_MS, CLEANUP_INTERVAL_MS + 1}

\* ------------------------------------------------------------------------
\* Actions
\* ------------------------------------------------------------------------
\* page.tsx handleFileSelect: the upload is processed and becomes the
\* analysis of the page
ProcessExcelFile ==
    /\ analysis = <<>>
    /\ ~inRequest
    /\ analysis' = <<processExcelFile(upload, now, 0)>>
    /\ UNCHANGED <<ADMIN_MODE, upload, sessionVars>>

\* route POST up to the tool definitions: the request body is parsed into
\* fresh objects; currentRows refers to the parsed analysis.rows itself
Post ==
    /\ ~inRequest
    /\ steps.requests < MaxRequests
    /\ heap' = Append(heap, RequestRowsOf(analysis))
    /\ currentRows' = Len(heap) + 1
    /\ requestRows' = Len(heap) + 1
    /\ appliedRemediations' = <<>>
    /\ toolResults' = <<>>
    /\ inRequest' = TRUE
    /\ lastCall' = NoCall
    /\ steps' = [steps EXCEPT !.requests = @ + 1]
    /\ UNCHANGED <<ADMIN_MODE, upload, analysis, correctedFilesStore, issued,
                   retrieved, now>>

CanCall == inRequest /\ steps.events < steps.limit

Called == steps' = [steps EXCEPT !.events = @ + 1]

fix_missing_quantities(defaultQuantity, affectedRowNumbers) ==
    LET rows == heap[currentRows]
        missingRows == IF affectedRowNumbers = <<>>
                       THEN findMissingQuantities(rows)
                       ELSE affectedRowNumbers[1]
        fixes == [i \in 1..Len(missingRows) |->
                    [rowNumber |-> missingRows[i],
                     quantity |-> defaultQuantity,
                     reason |-> <<"Auto-fixed", defaultQuantity>>]]
        fixedRows == FixedRows(rows, fixes)
        remediations == FixRemediations(rows, fixes)
    IN  /\ CanCall
        /\ heap' = Append(heap, fixedRows)
        /\ currentRows' = Len(heap) + 1
        /\ appliedRemediations' = appliedRemediations \o fixes
        /\ StoreAndReturn("fix_missing_quantities",
              [defaultQuantity |-> defaultQuantity,
               affectedRowNumbers |-> affectedRowNumbers],
              [success |-> TRUE, fixedCount |-> Len(remediations),
               affectedRows |-> missingRows, token |-> 0],
              Len(heap) + 1,
              [i \in 1..Len(fixes) |->
                  [rowNumber |-> fixes[i].rowNumber, field |-> "quantity",
                   oldValue |-> Null, newValue |-> fixes[i].quantity,
                   reason |-> fixes[i].reason]])
        /\ Called
        /\ UNCHANGED <<ADMIN_MODE, upload, analysis, inRequest, requestRows,
                       retrieved, now>>

generate_corrected_download(includeRemediationNotes) ==
    /\ CanCall
    /\ StoreAndReturn("generate_corrected_download",
          [includeRemediationNotes |-> includeRemediationNotes],
          [success |-> TRUE,
           remediationsCount |-> Len(appliedRemediations), token |-> 0],
          currentRows,
          [i \in 1..Len(appliedRemediations) |->
              [rowNumber |-> appliedRemediations[i].rowNumber,
               field |-> "quantity", oldValue |-> Null,
               newValue |-> appliedRemediations[i].quantity,
               reason |-> IF includeRemediationNotes
                          THEN appliedRemediations[i].reason ELSE <<>>]])
    /\ Called
    /\ UNCHANGED <<ADMIN_MODE, upload, analysis, heap, inRequest, currentRows,
                   requestRows, appliedRemediations, retrieved, now>>

update_cell_value(rowNumber, field, newValue) ==
    LET rows == heap[currentRows]
        rowIndex == FindIndex(rows, rowNumber)
        oldValue == rows[rowIndex][field]
        args == [rowNumber |-> rowNumber, field |-> field,
                 newValue |-> newValue]
        reason == <<"Updated", field, oldValue, newValue>>
    IN  /\ CanCall
        /\ IF rowIndex = 0
           THEN /\ lastCall' = Call("update_cell_value", args, NotFound(rowNumber))
                /\ toolResults' =
                      Append(toolResults,
                             [toolName |-> "update_cell_value",
                              result |-> NotFound(rowNumber)])
                /\ UNCHANGED <<heap, appliedRemediations,
                               correctedFilesStore, issued>>
           ELSE /\ heap' = [heap EXCEPT ![currentRows][rowIndex] =
                                UpdatedRow(rows[rowIndex], field, newValue)]
                /\ appliedRemediations' =
                      Append(appliedRemediations,
                             [rowNumber |-> rowNumber,
                              quantity |-> IF field = "quantity"
                                           THEN CoerceNumber(newValue)
                                           ELSE Int0(0),
                              reason |-> reason])
                /\ StoreAndReturn("update_cell_value", args,
                      [success |-> TRUE, rowNumber |-> rowNumber,
                       field |-> field, oldValue |-> oldValue,
                       newValue |-> newValue, token |-> 0],
                      currentRows,
                      <<[rowNumber |-> rowNumber, field |-> field,
                         oldValue |-> oldValue, newValue |-> newValue,
                         reason |-> reason]>>)
        /\ Called
        /\ UNCHANGED <<ADMIN_MODE, upload, analysis, inRequest, currentRows,
                       requestRows, retrieved, now>>

delete_rows(rowNumbers) ==
    LET rows == heap[currentRows]
        kept == RowsAfterDelete(rows, rowNumbers)
        deletedCount == Len(rows) - Len(kept)
    IN  /\ CanCall
        /\ heap' = Append(heap, kept)
        /\ currentRows' = Len(heap) + 1
        /\ appliedRemediations' =
              appliedRemediations \o
              [i \in 1..Len(rowNumbers) |->
                  [rowNumber |-> rowNumbers[i], quantity |-> Int0(0),
                   reason |-> <<"Row deleted by user request">>]]
        /\ StoreAndReturn("delete_rows", [rowNumbers |-> rowNumbers],
              [success |-> TRUE, deletedCount |-> deletedCount,
               rowNumbers |-> rowNumbers, token |-> 0],
              Len(heap) + 1,
              [i \in 1..Len(rowNumbers) |->
                  [rowNumber |-> rowNumbers[i], field |-> "quantity",
                   oldValue |-> Str(<<"R", "O", "W">>),
                   newValue |-> Str(<<"D", "E", "L", "E", "T", "E", "D">>),
                   reason |-> <<"Row deleted by user request">>]])
        /\ Called
        /\ UNCHANGED <<ADMIN_MODE, upload, analysis, inRequest, requestRows,
                       retrieved, now>>

clear_column(field) ==
    LET rows == heap[currentRows]
        affectedCount == AffectedCount(rows, field)
    IN  /\ CanCall
        /\ heap' = Append(heap, ClearedRows(rows, field))
        /\ currentRows' = Len(heap) + 1
        /\ appliedRemediations' =
              IF affectedCount > 0
              THEN Append(appliedRemediations,
                          [rowNumber |-> 0, quantity |-> Int0(0),
                           reason |-> <<"Cleared column", field>>])
              ELSE appliedRemediations
        /\ StoreAndReturn("clear_column", [field |-> field],
              [success |-> TRUE, field |-> field,
               affectedCount |-> affectedCount, token |-> 0],
              Len(heap) + 1,
              <<[rowNumber |-> 0, field |-> field,
                 oldValue |-> Str(<<"A", "L", "L">>), newValue |-> Null,
                 reason |-> <<"Cleared column", field>>]>>)
        /\ Called
        /\ UNCHANGED <<ADMIN_MODE, upload, analysis, inRequest, requestRows,
                       retrieved, now>>

\* ------------------------------------------------------------------------
\* The client: AICopilot effect and page.tsx handleDataUpdate
\* ------------------------------------------------------------------------
\* the data-update events the effect derives from one tool result
\* (a row number or field that is falsy yields no event)
EventsOf(tr) ==
    IF ~tr.result.success THEN <<>>
    ELSE CASE tr.toolName = "update_cell_value" ->
                IF tr.result.rowNumber # 0
                THEN <<[type |-> "update_cell",
                        rowNumber |-> tr.result.rowNumber,
                        field |-> tr.result.field,
                        newValue |-> tr.result.newValue]>>
                ELSE <<>>
           [] tr.toolName = "fix_missing_quantities" ->
                <<[type |-> "fix_quantities",
                   affectedRows |-> tr.result.affectedRows,
                   defaultQuantity |-> Int0(1)]>>
           [] tr.toolName = "delete_rows" ->
                <<[type |-> "delete_rows",
                   rowNumbers |-> tr.result.rowNumbers]>>
           [] tr.toolName = "clear_column" ->
                <<[type |-> "clear_column", field |-> tr.result.field]>>
           [] OTHER -> <<>>

RECURSIVE SetQuantities(_, _, _)
\* event.affectedRows.forEach(...) of fix_quantities
SetQuantities(rows, affectedRows, quantity) ==
    IF affectedRows = <<>> THEN rows
    ELSE LET k == FindIndex(rows, Head(affectedRows))
             next == IF k = 0 THEN rows
                     ELSE [rows EXCEPT ![k].quantity = quantity]
         IN  SetQuantities(next, Tail(affectedRows), quantity)

\* the rows of the page after handleDataUpdate(event)
ReplayRows(rows, event) ==
    CASE event.type = "update_cell" ->
            LET k == FindIndex(rows, event.rowNumber)
            IN  IF k = 0 THEN rows
                ELSE [rows EXCEPT ![k][event.field] = event.newValue]
      [] event.type = "fix_quantities" ->
            SetQuantities(rows, event.affectedRows, event.defaultQuantity)
      [] event.type = "delete_rows" ->
            RowsAfterDelete(rows, event.rowNumbers)
      [] event.type = "clear_column" ->
            [i \in 1..Len(rows) |->
                [rows[i] EXCEPT ![event.field] =
                    IF event.field \in NumericFields THEN Null
                    ELSE Str(<<>>)]]

\* setAnalysis(prev => ...): only the rows change
handleDataUpdate(prev, event) ==
    IF prev = <<>> THEN prev
    ELSE <<[prev[1] EXCEPT !.rows = ReplayRows(prev[1].rows, event)]>>

RECURSIVE ReplayAll(_, _)
ReplayAll(prev, events) ==
    IF events = <<>> THEN prev
    ELSE ReplayAll(handleDataUpdate(prev, Head(events)), Tail(events))

\* the response has streamed; the effect replays the tool results of the
\* last assistant message on the analysis of the page
EndRequest ==
    /\ inRequest
    /\ inRequest' = FALSE
    /\ analysis' =
          ReplayAll(analysis,
                    FlattenSeq([i \in 1..Len(toolResults) |->
                                    EventsOf(toolResults[i])]))
    /\ UNCHANGED <<ADMIN_MODE, upload, heap, currentRows, requestRows,
                   appliedRemediations, toolResults, correctedFilesStore,
                   issued, retrieved, now, lastCall, steps>>

\* ------------------------------------------------------------------------
\* The clock and the download route
\* ------------------------------------------------------------------------
Tick(d) ==
    /\ steps.events < steps.limit
    /\ now' = now + d
    /\ steps' = [steps EXCEPT !.events = @ + 1]
    /\ UNCHANGED <<ADMIN_MODE, upload, analysis, heap, inRequest, currentRows,
                   requestRows, appliedRemediations, toolResults,
                   correctedFilesStore, issued, retrieved, lastCall>>

\* GET /api/download/[token]: 404 when getStoredData returns null, else
\* the workbook built from the stored rows
Get(token) ==
    LET data == getStoredData(correctedFilesStore, token)
    IN  /\ steps.events < steps.limit
        /\ steps' = [steps EXCEPT !.events = @ + 1]
        /\ lastCall' =
              [NoCall EXCEPT
                 !.op = "GET",
                 !.args = [token |-> token, at |-> now,
                           again |-> token \in retrieved],
                 !.result = IF data = <<>> THEN [status |-> 404, rows |-> <<>>]
                            ELSE [status |-> 200,
                                  rows |-> heap[data[1].rows]]]
        /\ retrieved' = IF data = <<>> THEN retrieved
                        ELSE retrieved \cup {token}
        /\ UNCHANGED <<ADMIN_MODE, upload, analysis, heap, inRequest,
                       currentRows, requestRows, appliedRemediations,
                       toolResults, correctedFilesStore, issued, now>>

\* ------------------------------------------------------------------------
\* Specifications
\* ------------------------------------------------------------------------
IdleSession ==
    /\ heap = <<>>
    /\ inRequest = FALSE
    /\ currentRows = 0
    /\ requestRows = 0
    /\ appliedRemediations = <<>>
    /\ toolResults = <<>>
    /\ correctedFilesStore = <<>>
    /\ issued = <<>>
    /\ retrieved = {}
    /\ now = 0
    /\ lastCall = NoCall

\* a run may take limit events (tool calls, clock advances, downloads)
Budget(limit) == steps = [events |-> 0, requests |-> 0, limit |-> limit]

SessionCells ==
    <<[c \in {"Part", "Qty", "Price", "Notes"} |->
        CASE c = "Part" -> Str(<<"A">>)
          [] c = "Qty" -> Str(<<>>)
          [] c = "Price" -> Str(<<>>)
          [] c = "Notes" -> Str(<<>>)],
      [c \in {"Part", "Qty", "Price", "Notes"} |->
        CASE c = "Part" -> Str(<<"a">>)
          [] c = "Qty" -> Str(<<"0">>)
          [] c = "Price" -> Str(<<"2", ".", "5">>)
          [] c = "Notes" -> Str(<<"n">>)],
      [c \in {"Part", "Qty", "Price", "Notes"} |->
        CASE c = "Part" -> Str(<<>>)
          [] c = "Qty" -> Str(<<"5">>)
          [] c = "Price" -> Str(<<>>)
          [] c = "Notes" -> Str(<<>>)],
      [c \in {"Part", "Qty", "Price", "Notes"} |->
        CASE c = "Part" -> Str(<<"B">>)
          [] c = "Qty" -> Str(<<"a", "b", "c">>)
          [] c = "Price" -> Str(<<"$", "1">>)
          [] c = "Notes" -> Str(<<>>)]>>

SessionSheets == {<<1, 2, 3>>, <<4, 1>>}

SheetMapping ==
    [partNumber |-> <<"Part">>, quantity |-> <<"Qty">>,
     description |-> <<>>, unitPrice |-> <<"Price">>,
     unitOfMeasure |-> <<>>, notes |-> <<"Notes">>, terms |-> <<>>,
     headerRow |-> 1]

SessionUploads ==
    {OkUpload([i \in 1..Len(sh) |-> SessionCells[sh[i]]], SheetMapping, <<>>) :
        sh \in SessionSheets}

\* the chat session: one upload, chat requests with tool calls, and the
\* client that replays the tool results between requests
Init ==
    /\ ADMIN_MODE = FALSE
    /\ upload \in SessionUploads
    /\ analysis = <<>>
    /\ IdleSession
    /\ Budget(MaxCalls)

ToolCall ==
    \/ \E c \in FixChoices : fix_missing_quantities(c[1], c[2])
    \/ \E b \in BOOLEAN : generate_corrected_download(b)
    \/ \E c \in UpdateChoices : update_cell_value(c[1], c[2], c[3])
    \/ \E ns \in DeleteChoices : delete_rows(ns)
    \/ \E f \in ClearChoices : clear_column(f)

Next ==
    \/ ProcessExcelFile
    \/ Post
    \/ ToolCall
    \/ EndRequest

Spec == Init /\ [][Next]_vars

\* the download store: tool calls that store an artifact, the clock, and
\* GET /api/download/[token]
InitStore ==
    /\ ADMIN_MODE = FALSE
    /\ upload \in SessionUploads
    /\ analysis = <<>>
    /\ IdleSession
    /\ Budget(MaxStoreEvents)

StoreCall ==
    \/ \E b \in BOOLEAN : generate_corrected_download(b)
    \/ \E c \in StoreUpdateChoices : update_cell_value(c[1], c[2], c[3])
    \/ \E ns \in StoreDeleteChoices : delete_rows(ns)

NextStore ==
    \/ ProcessExcelFile
    \/ Post
    \/ StoreCall
    \/ EndRequest
    \/ \E d \in TickChoices : Tick(d)
    \/ \E tok \in DOMAIN issued : Get(tok)

SpecStore == InitStore /\ [][NextStore]_vars

\* the materializer alone: every upload of MatUploads, with and without
\* ADMIN_MODE, is processed once
InitMat ==
    /\ ADMIN_MODE \in BOOLEAN
    /\ upload \in MatUploads
    /\ analysis = <<>>
    /\ IdleSession
    /\ Budget(0)

NextMat == ProcessExcelFile

SpecMat == InitMat /\ [][NextMat]_vars

\* the text detectors: every text of RawTexts and MoreTexts, over short
\* sheets, is processed once
InitText ==
    /\ ADMIN_MODE \in BOOLEAN
    /\ upload \in TextUploads
    /\ analysis = <<>>
    /\ IdleSession
    /\ Budget(0)

NextText == ProcessExcelFile

SpecText == InitText /\ [][NextText]_vars

\* ------------------------------------------------------------------------
\* Inputs of the normalizer specification
\* ------------------------------------------------------------------------
\* cell values for parseQuantity and parsePrice
NormValues ==
    {Null, Undefined, Str(<<>>), Int0(7), MkNum(25, 1), MkNum(0 - 15, 1),
     Str(<<"EUR", "5">>), Str(<<"1", "\t", "2", "\n">>),
     Str(<<"a", "b", "c">>),
     Str(<<"1", ",", "2", "3", "4">>),
     Str(<<" ", "1", "2", " ">>),
     Str(<<"$", "1", ",", "2", "3", "4", ".", "5", "0">>),
     Str(<<"(", "1", "0", "0", ")">>),
     Str(<<"-", "3">>),
     Str(<<"2", ".", "5">>),
     Str(<<"1", ".", "2", ".", "3">>),
     Str(<<".", "5">>),
     Str(<<"1", "2", "a", "b", "c">>),
     Str(<<"-">>),
     Str(<<"$">>),
     Str(<<"(", " ", ")">>),
     Str(<<"1", " ", "0", "0", "0">>),
     Str(<<"-", "(", "7", ")">>)}

NormUploads ==
    {OkUpload(<<[c \in {"Qty", "Price"} |-> IF c = "Qty" THEN q ELSE p]>>,
              FullMapping(1), <<>>) :
        q \in NormValues, p \in NormValues}

\* the normalizers: one-row sheets with every pair of NormValues in the
\* quantity and price columns
InitNorm ==
    /\ ADMIN_MODE \in BOOLEAN
    /\ upload \in NormUploads
    /\ analysis = <<>>
    /\ IdleSession
    /\ Budget(0)

NextNorm == ProcessExcelFile

SpecNorm == InitNorm /\ [][NextNorm]_vars

\* ------------------------------------------------------------------------
\* Properties
\* ------------------------------------------------------------------------
Analysed == analysis # <<>> /\ analysis[1].success

\* the rows processExcelFile materialized from the upload
OriginalRows ==
    Materialize(upload.rows, upload.columnMapping, getEffectiveLimit(MAX_ROWS))

\* the number of rows the ceiling lets through
Surviving ==
    IF ADMIN_MODE \/ Len(upload.rows) <= MAX_ROWS THEN Len(upload.rows)
    ELSE MAX_ROWS

StrictlyIncreasing(rows) ==
    \A i \in 1..(Len(rows) - 1) : rows[i].rowNumber < rows[i + 1].rowNumber

MutationOps ==
    {"fix_missing_quantities", "update_cell_value", "delete_rows",
     "clear_column"}

\* C1: the materialized list has length min(n, ceiling), and the row at
\* zero-based index i has rowNumber i + 2 whatever the mapping and its
\* headerRow are, so the row numbers are 2..min(n, ceiling) + 1 without gaps
\* and no row is dropped for a missing field.
Thm_C1_RowNumbering ==
    Analysed =>
        /\ Len(analysis[1].rows) = Surviving
        /\ \A i \in 1..Len(analysis[1].rows) :
              analysis[1].rows[i].rowNumber = (i - 1) + 2
        /\ StrictlyIncreasing(analysis[1].rows)

\* a truncated sheet under a mapping with headerRow 3 that names a column
\* no row has
Wit_C1_RowNumbering ==
    /\ Analysed
    /\ ~ADMIN_MODE
    /\ Len(upload.rows) > MAX_ROWS
    /\ upload.columnMapping.headerRow = 3
    /\ "Quantity" \notin DOMAIN upload.rows[1]
    /\ Len(analysis[1].rows) = MAX_ROWS
    /\ analysis[1].rows[MAX_ROWS].rowNumber = MAX_ROWS + 1

IsRowLimitWarning(r) ==
    r.type = "general" /\ r.level = "medium" /\ r.id = <<"warning-row-limit">>

\* C2: with limits enforced and more raw rows than MAX_ROWS, exactly
\* MAX_ROWS rows are produced and the risk list holds exactly one general
\* finding, the medium row-limit warning; with at most ceiling raw rows
\* there is no general finding and every row is kept.
Thm_C2_Truncation ==
    Analysed =>
        LET risks == analysis[1].risks
            general == {i \in 1..Len(risks) : risks[i].type = "general"}
        IN  IF shouldEnforceLimit /\ Len(upload.rows) > MAX_ROWS
            THEN /\ Len(analysis[1].rows) = MAX_ROWS
                 /\ Cardinality(general) = 1
                 /\ \A i \in general : IsRowLimitWarning(risks[i])
            ELSE /\ general = {}
                 /\ Len(analysis[1].rows) = Len(upload.rows)

\* a sheet one row over the limit, truncated and flagged, with other risks
Wit_C2_Truncation ==
    /\ Analysed
    /\ shouldEnforceLimit
    /\ Len(upload.rows) = MAX_ROWS + 1
    /\ Len(analysis[1].rows) = MAX_ROWS
    /\ Len(analysis[1].risks) > 1
    /\ IsRowLimitWarning(analysis[1].risks[1])

\* C3: in every state of a chat request the row numbers of the current rows
\* are strictly increasing (hence distinct), each current row is the
\* materialized row of the same number (same source data), so no tool
\* changes the number of a row that survives.
Thm_C3_RowNumberIdentity ==
    currentRows # 0 =>
        LET rows == heap[currentRows]
        IN  /\ StrictlyIncreasing(rows)
            /\ \A i \in 1..Len(rows) :
                  \E j \in 1..Len(OriginalRows) :
                     /\ OriginalRows[j].rowNumber = rows[i].rowNumber
                     /\ OriginalRows[j].rawData = rows[i].rawData

\* rows 2 and 4 survive the deletion of row 3 with their numbers
Wit_C3_RowNumberIdentity ==
    /\ currentRows # 0
    /\ lastCall.op = "delete_rows"
    /\ lastCall.result.deletedCount = 1
    /\ RowNumbersOf(heap[currentRows]) = <<2, 4>>

IsNumberOrAbsent(v) == v.t \in {"num", "null", "undefined"}

\* C4: quantity and unitPrice of every row, materialized or reached by the
\* tools, is a number that is not NaN or the absent marker.
Cex_C4_NeverNaN ==
    /\ Analysed =>
          \A i \in 1..Len(analysis[1].rows) :
             /\ IsNumberOrAbsent(analysis[1].rows[i].quantity)
             /\ IsNumberOrAbsent(analysis[1].rows[i].unitPrice)
    /\ currentRows # 0 =>
          \A i \in 1..Len(heap[currentRows]) :
             /\ IsNumberOrAbsent(heap[currentRows][i].quantity)
             /\ IsNumberOrAbsent(heap[currentRows][i].unitPrice)

\* C5: fix_missing_quantities without affectedRowNumbers targets exactly
\* the rows whose quantity is absent; a row with quantity 0 is not targeted
\* and keeps its quantity.
Cex_C5_DefaultTargets ==
    (lastCall.op = "fix_missing_quantities"
        /\ lastCall.args.affectedRowNumbers = <<>>) =>
        \A i \in 1..Len(lastCall.inputBefore) :
            LET before == lastCall.inputBefore[i]
                after == heap[currentRows][i]
                targeted == \E j \in 1..Len(lastCall.result.affectedRows) :
                               lastCall.result.affectedRows[j] = before.rowNumber
            IN  /\ targeted <=> IsNullish(before.quantity)
                /\ IsNullish(before.quantity) =>
                      after.quantity = lastCall.args.defaultQuantity
                /\ ~IsNullish(before.quantity) => after = before

\* C6: no mutation tool modifies the array it was given.
Cex_C6_InputUntouched ==
    lastCall.op \in MutationOps => heap[lastCall.input] = lastCall.inputBefore

\* C7: a token stored at time t is not found by any lookup later than
\* t + CLEANUP_INTERVAL_MS, whatever happened to the store in between.
Cex_C7_Expiry ==
    \A tok \in DOMAIN issued :
        now > issued[tok] + CLEANUP_INTERVAL_MS =>
            getStoredData(correctedFilesStore, tok) = <<>>

\* C8: the first retrieval of a token within the retention window succeeds
\* and every later retrieval of the same token yields not found.
Cex_C8_ExactlyOnce ==
    lastCall.op = "GET" =>
        IF lastCall.args.again THEN lastCall.result.status = 404
        ELSE lastCall.args.at <= issued[lastCall.args.token]
                                    + CLEANUP_INTERVAL_MS
                => lastCall.result.status = 200

\* C8 as amended: every retrieval of a token within the retention window
\* succeeds, the first and the later ones, and serves the stored rows.
Thm_C8_RetrievableInWindow ==
    (lastCall.op = "GET"
        /\ lastCall.args.at <= issued[lastCall.args.token]
                                   + CLEANUP_INTERVAL_MS) =>
        /\ lastCall.result.status = 200
        /\ lastCall.args.token \in DOMAIN correctedFilesStore

\* a token that was served before is served a second time, within its
\* window, with the rows stored under it
Wit_C8_RetrievableInWindow ==
    /\ lastCall.op = "GET"
    /\ lastCall.args.again
    /\ lastCall.args.token \in retrieved
    /\ lastCall.args.at <= issued[lastCall.args.token] + CLEANUP_INTERVAL_MS
    /\ lastCall.result.status = 200
    /\ lastCall.result.rows = heap[correctedFilesStore[lastCall.args.token].rows]

\* every row's field is already empty
AllEmpty(rows, field) ==
    \A i \in 1..Len(rows) :
        rows[i][field] = (IF field \in NumericFields THEN Null ELSE Str(<<>>))

\* C9: clear_column on a column that is empty in every row reports
\* affectedCount 0, leaves the rows as they were and produces no remediation
\* record, neither in the session list nor in the stored download artifact.
Cex_C9_ClearEmptyColumn ==
    (lastCall.op = "clear_column"
        /\ AllEmpty(lastCall.inputBefore, lastCall.args.field)) =>
        /\ lastCall.result.affectedCount = 0
        /\ heap[currentRows] = lastCall.inputBefore
        /\ appliedRemediations = lastCall.remediationsBefore
        /\ correctedFilesStore[lastCall.result.token].remediations = <<>>

\* C10: a delete_rows that follows a delete_rows with the same row numbers
\* removes no row and leaves the rows as the first left them; a
\* clear_column that follows a clear_column of the same field reports
\* affectedCount 0 and leaves the rows as the first left them.
Thm_C10_ReplayIdempotent ==
    (lastCall.op = lastCall.prev.op /\ lastCall.args = lastCall.prev.args) =>
        /\ lastCall.op = "delete_rows" =>
              /\ lastCall.result.deletedCount = 0
              /\ heap[currentRows] = lastCall.inputBefore
        /\ lastCall.op = "clear_column" =>
              /\ lastCall.result.affectedCount = 0
              /\ heap[currentRows] = lastCall.inputBefore

\* both replays happen, each after a first call that had an effect
Wit_C10_ReplayIdempotent ==
    /\ lastCall.op = "clear_column"
    /\ lastCall.prev.op = "clear_column"
    /\ lastCall.args = lastCall.prev.args
    /\ lastCall.prev.result.affectedCount > 0
    /\ lastCall.args.field = "notes"

\* a tool call of the given name returns in this step
ToolStep(name) ==
    /\ Len(toolResults') = Len(toolResults) + 1
    /\ toolResults'[Len(toolResults')].toolName = name

HasRowNumber(rows, n) == \E i \in 1..Len(rows) : rows[i].rowNumber = n

\* C11: update_cell_value for a row number no current row has returns
\* success = false with a message, and the step changes no row array, not the
\* current rows, appends no remediation and stores no download artifact.
Thm_C11_UpdateNotFound ==
    [][(ToolStep("update_cell_value")
          /\ ~HasRowNumber(heap[currentRows], lastCall'.args.rowNumber)) =>
          /\ lastCall'.result.success = FALSE
          /\ Len(lastCall'.result.message) > 0
          /\ toolResults'[Len(toolResults')].result = lastCall'.result
          /\ heap' = heap
          /\ currentRows' = currentRows
          /\ appliedRemediations' = appliedRemediations
          /\ correctedFilesStore' = correctedFilesStore
          /\ issued' = issued]_vars

\* row 9 is asked for in a sheet that has rows but not that one
Wit_C11_UpdateNotFound ==
    /\ lastCall.op = "update_cell_value"
    /\ lastCall.args.rowNumber = 9
    /\ Len(lastCall.inputBefore) > 0
    /\ ~HasRowNumber(lastCall.inputBefore, 9)
    /\ lastCall.result.success = FALSE
    /\ heap[currentRows] = lastCall.inputBefore
    /\ appliedRemediations = lastCall.remediationsBefore

\* typeof v === 'string'
IsStringType(v) == v.t = "str"

\* C12: update_cell_value for a row number a current row has: the row of
\* that number, and no other, is replaced by a row with the same rowNumber
\* that differs from the old one in the named field only; a numeric field
\* holds a number (the new value, parsed when it came as a string), another
\* field a string; length and order stay; one remediation is added to the
\* session list, and the one record stored with the artifact carries the
\* field's value before the call as oldValue and the requested value as
\* newValue.
Thm_C12_UpdateExisting ==
    (lastCall.op = "update_cell_value"
        /\ HasRowNumber(lastCall.inputBefore, lastCall.args.rowNumber)) =>
        LET before == lastCall.inputBefore
            after == heap[currentRows]
            a == lastCall.args
            stored == correctedFilesStore[lastCall.result.token].remediations
        IN  /\ lastCall.result.success
            /\ Len(after) = Len(before)
            /\ \A i \in 1..Len(before) :
                  IF before[i].rowNumber = a.rowNumber
                  THEN /\ \A f \in DOMAIN before[i] \ {a.field} :
                             after[i][f] = before[i][f]
                       /\ after[i].rowNumber = a.rowNumber
                       /\ IF a.field \in {"quantity", "unitPrice"}
                          THEN /\ IsNumberType(after[i][a.field])
                               /\ IsNumberType(a.newValue) =>
                                     after[i][a.field] = a.newValue
                               /\ IsStringType(a.newValue) =>
                                     after[i][a.field] = ParseFloat(a.newValue.s)
                          ELSE /\ IsStringType(after[i][a.field])
                               /\ after[i][a.field].s = JsString(a.newValue)
                       /\ stored[1].oldValue = before[i][a.field]
                  ELSE after[i] = before[i]
            /\ Len(appliedRemediations) = Len(lastCall.remediationsBefore) + 1
            /\ SubSeq(appliedRemediations, 1, Len(lastCall.remediationsBefore))
                  = lastCall.remediationsBefore
            /\ appliedRemediations[Len(appliedRemediations)].rowNumber
                  = a.rowNumber
            /\ Len(stored) = 1
            /\ stored[1].rowNumber = a.rowNumber
            /\ stored[1].field = a.field
            /\ stored[1].newValue = a.newValue
            /\ lastCall.result.oldValue = stored[1].oldValue
            /\ lastCall.result.newValue = a.newValue

\* the quantity of row 3 of three rows is set from the string "7.5"
Wit_C12_UpdateExisting ==
    /\ lastCall.op = "update_cell_value"
    /\ lastCall.args.rowNumber = 3
    /\ lastCall.args.field = "quantity"
    /\ IsStringType(lastCall.args.newValue)
    /\ Len(heap[currentRows]) = 3
    /\ heap[currentRows][2].quantity = MkNum(75, 1)
    /\ lastCall.inputBefore[2].quantity # MkNum(75, 1)
    /\ heap[currentRows][1] = lastCall.inputBefore[1]

\* C13: delete_rows keeps exactly the rows whose rowNumber is not requested,
\* in their order; deletedCount is the number of requested row numbers that
\* were present; numbers not present are ignored (success = true); and one
\* remediation is recorded per requested row number, present or not, in
\* the session list and with the stored artifact.
Thm_C13_DeleteRows ==
    lastCall.op = "delete_rows" =>
        LET before == lastCall.inputBefore
            after == heap[currentRows]
            requested == {lastCall.args.rowNumbers[j] :
                            j \in 1..Len(lastCall.args.rowNumbers)}
            present == {before[i].rowNumber : i \in 1..Len(before)}
            keptAt == {i \in 1..Len(before) :
                         before[i].rowNumber \notin requested}
            nth(k) == CHOOSE i \in keptAt :
                         Cardinality({j \in keptAt : j <= i}) = k
            added == SubSeq(appliedRemediations,
                            Len(lastCall.remediationsBefore) + 1,
                            Len(appliedRemediations))
            stored == correctedFilesStore[lastCall.result.token].remediations
        IN  /\ lastCall.result.success
            /\ Len(after) = Cardinality(keptAt)
            /\ \A k \in 1..Len(after) : after[k] = before[nth(k)]
            /\ lastCall.result.deletedCount
                  = Cardinality(requested \cap present)
            /\ SubSeq(appliedRemediations, 1, Len(lastCall.remediationsBefore))
                  = lastCall.remediationsBefore
            /\ [j \in 1..Len(added) |-> added[j].rowNumber]
                  = lastCall.args.rowNumbers
            /\ [j \in 1..Len(stored) |-> stored[j].rowNumber]
                  = lastCall.args.rowNumbers

\* rows 4, 2 and 9 are requested of rows 2, 3, 4: two are deleted, row 9 is
\* ignored, three remediations are recorded
Wit_C13_DeleteRows ==
    /\ lastCall.op = "delete_rows"
    /\ lastCall.args.rowNumbers = <<4, 2, 9>>
    /\ RowNumbersOf(lastCall.inputBefore) = <<2, 3, 4>>
    /\ RowNumbersOf(heap[currentRows]) = <<3>>
    /\ lastCall.result.deletedCount = 2
    /\ Len(appliedRemediations) = Len(lastCall.remediationsBefore) + 3

Levels == {"critical", "high", "medium", "low"}

OfLevel(risks, lv) == SelectSeq(risks, LAMBDA r : r.level = lv)

\* the findings of the detectors, without the row limit warning that
\* processExcelFile puts in front
AggregatorOutput == SelectSeq(analysis[1].risks, LAMBDA r : r.type # "general")

\* the detector outputs for the upload, concatenated in the order
\* incoterms, LD, duplicates, UoM, missing data
Emitted ==
    detectIncoterms(upload.rawText, now)
        \o detectLiquidatedDamages(upload.rawText, now, 0)
        \o detectDuplicates(analysis[1].rows, now)
        \o detectUoMConflicts(analysis[1].rows, now)
        \o detectMissingData(analysis[1].rows, now)

\* C14: the findings analyzeAllRisks returns are those the detectors
\* emitted, none added, dropped or merged; their severity ranks never
\* decrease along the list; and the findings of one level stand in the order
\* of emission.
Thm_C14_AggregatorOrdering ==
    Analysed =>
        /\ Len(AggregatorOutput) = Len(Emitted)
        /\ \A i, j \in 1..Len(AggregatorOutput) :
              i < j => levelOrder(AggregatorOutput[i].level)
                          <= levelOrder(AggregatorOutput[j].level)
        /\ \A lv \in Levels :
              OfLevel(AggregatorOutput, lv) = OfLevel(Emitted, lv)

\* emission starts low, critical, high; the sorted list starts critical,
\* high, and holds several medium findings from different detectors
Wit_C14_AggregatorOrdering ==
    /\ Analysed
    /\ Len(Emitted) >= 6
    /\ Emitted[1].level = "low"
    /\ Emitted[2].level = "critical"
    /\ Emitted[3].level = "high"
    /\ AggregatorOutput[1].level = "critical"
    /\ AggregatorOutput[2].level = "high"
    /\ Len(OfLevel(AggregatorOutput, "medium")) >= 2
    /\ Len(OfLevel(AggregatorOutput, "low")) >= 2
    /\ AggregatorOutput[Len(AggregatorOutput)].type = "uom_conflict"

IndexesOfLevel(risks, lv) == {i \in 1..Len(risks) : risks[i].level = lv}

\* C15: in every analysis processExcelFile returns, successful or failed,
\* totalRisks is the length of the risk list, each per-level count is the
\* number of findings of that level in the list (the row limit warning
\* included), and the four counts add up to totalRisks.
Thm_C15_SummaryTallies ==
    analysis # <<>> =>
        /\ analysis[1].summary.totalRisks = Len(analysis[1].risks)
        /\ analysis[1].summary.criticalRisks
              = Cardinality(IndexesOfLevel(analysis[1].risks, "critical"))
        /\ analysis[1].summary.highRisks
              = Cardinality(IndexesOfLevel(analysis[1].risks, "high"))
        /\ analysis[1].summary.mediumRisks
              = Cardinality(IndexesOfLevel(analysis[1].risks, "medium"))
        /\ analysis[1].summary.lowRisks
              = Cardinality(IndexesOfLevel(analysis[1].risks, "low"))
        /\ analysis[1].summary.criticalRisks + analysis[1].summary.highRisks
              + analysis[1].summary.mediumRisks + analysis[1].summary.lowRisks
              = analysis[1].summary.totalRisks

\* a truncated sheet: the warning is counted among the medium findings
Wit_C15_SummaryTallies ==
    /\ Analysed
    /\ Len(analysis[1].risks) >= 3
    /\ IsRowLimitWarning(analysis[1].risks[1])
    /\ analysis[1].summary.totalRisks >= 3
    /\ analysis[1].summary.mediumRisks
          = 1 + Len(OfLevel(AggregatorOutput, "medium"))
    /\ analysis[1].summary.criticalRisks >= 1

\* no file, a file over the enforced size limit, a read that throws, or a
\* document that cannot be decoded
UpstreamFailure ==
    \/ ~upload.hasFile
    \/ (~ADMIN_MODE /\ upload.size > MAX_FILE_SIZE_BYTES)
    \/ upload.throws
    \/ ~upload.parseOk

\* C16: for an upload that fails upstream processExcelFile returns an
\* analysis with success = false, no rows, and one finding, of type general
\* and level critical, with totalRisks = 1 and criticalRisks = 1; another
\* upload is analysed with success = true.
Thm_C16_UpstreamFailure ==
    analysis # <<>> =>
        IF UpstreamFailure
        THEN /\ analysis[1].success = FALSE
             /\ analysis[1].rows = <<>>
             /\ Len(analysis[1].risks) = 1
             /\ analysis[1].risks[1].type = "general"
             /\ analysis[1].risks[1].level = "critical"
             /\ analysis[1].summary.totalRisks = 1
             /\ analysis[1].summary.criticalRisks = 1
             /\ analysis[1].summary.totalRows = 0
        ELSE analysis[1].success = TRUE

\* a file one byte over the limit, with limits enforced
Wit_C16_UpstreamFailure ==
    /\ analysis # <<>>
    /\ upload.hasFile
    /\ ~ADMIN_MODE
    /\ upload.size = MAX_FILE_SIZE_BYTES + 1
    /\ upload.parseOk
    /\ analysis[1].success = FALSE
    /\ analysis[1].risks[1].id = <<"error-processing">>

\* N % per|each day|week, the number N apart
PerUnitRegex ==
    <<NumberGroup,
      <<Ws0, Lit(<<"%">>), Ws0, Grp(<<<<Lit(<<"p", "e", "r">>)>>, <<Lit(<<"e", "a", "c", "h">>)>>>>, 1), Ws0,
        Grp(<<<<Lit(<<"d", "a", "y">>)>>, <<Lit(<<"w", "e", "e", "k">>)>>>>, 1)>>>>

\* the level the rule of C17 gives a text, from the match of the cap
\* pattern and the match of the percentage per time unit
StatedLdLevel(text, cap, perUnit) ==
    IF cap # <<>> /\ NumGreater(ParseFloat(Between(text, cap, 2, 3)), 10)
    THEN "critical"
    ELSE IF perUnit = <<>> THEN "high"
    ELSE IF NumAtLeastOne(ParseFloat(Between(text, perUnit, 1, 2)))
    THEN "critical"
    ELSE IF NumAtLeastHalf(ParseFloat(Between(text, perUnit, 1, 2)))
    THEN "high"
    ELSE "medium"

\* C17: the level of a liquidated damages finding is critical when a cap
\* above 10% is found; otherwise it follows the percentage of an expression
\* N% per/each day/week (critical from 1, high from 0.5, medium below), and
\* is high when the text has no such expression.
Cex_C17_LdSeverity ==
    Analysed =>
        \A i \in 1..Len(analysis[1].risks) :
            analysis[1].risks[i].type = "liquidated_damages" =>
                analysis[1].risks[i].level
                    = StatedLdLevel(upload.rawText,
                                    RegexMatch(CapRegex, upload.rawText),
                                    RegexMatch(PerUnitRegex, upload.rawText))

LdFindings ==
    {i \in 1..Len(analysis[1].risks) :
        analysis[1].risks[i].type = "liquidated_damages"}

TermFindings(term) ==
    {i \in 1..Len(analysis[1].risks) :
        /\ analysis[1].risks[i].type = "incoterms"
        /\ Len(analysis[1].risks[i].id) = 3
        /\ analysis[1].risks[i].id[2] = term}

\* C19: for every code of the table there is one finding when the code
\* occurs in the text as a whole word, in any case, and none when it does
\* not; the finding has the level the table gives the code.
Cex_C19_IncotermsWholeWord ==
    Analysed =>
        \A k \in 1..Len(INCOTERMS_DATA) :
            /\ Cardinality(TermFindings(INCOTERMS_DATA[k].term))
                  = (IF RegexMatch(<<<<WordBoundary,
                                      Lit(INCOTERMS_DATA[k].term),
                                      WordBoundary>>>>, upload.rawText) # <<>>
                     THEN 1 ELSE 0)
            /\ \A i \in TermFindings(INCOTERMS_DATA[k].term) :
                  analysis[1].risks[i].level = INCOTERMS_DATA[k].riskLevel

\* the finding pushed for the phrase "Delivered Duty Paid"
PhraseFindings ==
    {i \in 1..Len(analysis[1].risks) :
        /\ analysis[1].risks[i].type = "incoterms"
        /\ Len(analysis[1].risks[i].id) = 2}

CriticalIncoterms ==
    {i \in 1..Len(analysis[1].risks) :
        /\ analysis[1].risks[i].type = "incoterms"
        /\ analysis[1].risks[i].level = "critical"}

Rows == analysis[1].rows

Findings == analysis[1].risks

FindingsOfType(type) == {i \in 1..Len(Findings) : Findings[i].type = type}

\* the row has a part number that is not blank
Grouped(r) == trim(r.partNumber.s) # <<>>

\* the part numbers of the analysis, trimmed and upper-cased
GroupKeys ==
    {toUpperCase(trim(Rows[i].partNumber.s)) :
        i \in {j \in 1..Len(Rows) : Grouped(Rows[j])}}

\* the row numbers of the rows with part number key, in source order
GroupMembers(key) ==
    RowNumbersOf(SelectSeq(Rows,
        LAMBDA r : Grouped(r) /\ toUpperCase(trim(r.partNumber.s)) = key))

DuplicateFindingsFor(key) ==
    {i \in FindingsOfType("duplicate") : Findings[i].extractedValue.s = key}

SeqRange(seq) == {seq[i] : i \in 1..Len(seq)}

\* C21: each part number that two or more rows share, after trimming and
\* upper-casing, has exactly one duplicate finding: medium, affectedRows the
\* member row numbers in source order, extractedValue the upper-cased part
\* number; a part number of one row has none; blank part numbers form no
\* group; there is no other duplicate finding, and no row number is in two.
Thm_C21_DuplicateGrouping ==
    Analysed =>
        /\ \A key \in GroupKeys :
              IF Len(GroupMembers(key)) >= 2
              THEN /\ Cardinality(DuplicateFindingsFor(key)) = 1
                   /\ \A i \in DuplicateFindingsFor(key) :
                         /\ Findings[i].level = "medium"
                         /\ Findings[i].affectedRows = GroupMembers(key)
              ELSE DuplicateFindingsFor(key) = {}
        /\ \A i \in FindingsOfType("duplicate") :
              /\ Findings[i].extractedValue.s \in GroupKeys
              /\ Findings[i].extractedValue.s # <<>>
        /\ \A i, j \in FindingsOfType("duplicate") :
              i # j => SeqRange(Findings[i].affectedRows)
                          \cap SeqRange(Findings[j].affectedRows) = {}

\* "A-1" and " a-1 " in rows 2 and 3 form one group; the row without a part
\* number is in none
Wit_C21_DuplicateGrouping ==
    /\ Analysed
    /\ Len(Rows) = 3
    /\ Rows[1].partNumber.s = <<"A", "-", "1">>
    /\ Rows[2].partNumber.s = <<" ", "a", "-", "1", " ">>
    /\ Rows[3].partNumber.s = <<>>
    /\ Cardinality(FindingsOfType("duplicate")) = 1
    /\ \A i \in FindingsOfType("duplicate") :
          /\ Findings[i].affectedRows = <<2, 3>>
          /\ Findings[i].extractedValue.s = <<"A", "-", "1">>

MissingPartNumbers ==
    RowNumbersOf(SelectSeq(Rows, LAMBDA r : trim(r.partNumber.s) = <<>>))

MissingQuantities ==
    RowNumbersOf(SelectSeq(Rows,
        LAMBDA r : r.quantity.t \in {"null", "undefined"}))

MissingFindings(kind) ==
    {i \in FindingsOfType("missing_data") : Findings[i].id[1] = kind}

\* the first ten of a list
FirstTen(seq) == SubSeq(seq, 1, IF Len(seq) < 10 THEN Len(seq) ELSE 10)

\* C22: a row misses its quantity only when the quantity is null or
\* undefined (0 is a quantity); there is one missing-part-number finding
\* when a row has no part number, high when more than 5 rows have none and
\* medium otherwise, and one missing-quantity finding, medium, when a row
\* misses its quantity; neither is there otherwise; affectedRows is the
\* first 10 of the affected row numbers, in source order.
Thm_C22_MissingData ==
    Analysed =>
        /\ FindingsOfType("missing_data")
              = MissingFindings("missing-pn") \cup MissingFindings("missing-qty")
        /\ Cardinality(MissingFindings("missing-pn"))
              = (IF MissingPartNumbers # <<>> THEN 1 ELSE 0)
        /\ Cardinality(MissingFindings("missing-qty"))
              = (IF MissingQuantities # <<>> THEN 1 ELSE 0)
        /\ \A i \in MissingFindings("missing-pn") :
              /\ Findings[i].level
                    = (IF Len(MissingPartNumbers) > 5 THEN "high" ELSE "medium")
              /\ Findings[i].affectedRows = FirstTen(MissingPartNumbers)
        /\ \A i \in MissingFindings("missing-qty") :
              /\ Findings[i].level = "medium"
              /\ Findings[i].affectedRows = FirstTen(MissingQuantities)

\* a long sheet in which every other row has quantity 0 and the rest have
\* none: the finding lists the first ten of the latter
Wit_C22_MissingData ==
    /\ Analysed
    /\ Len(Rows) > 20
    /\ Rows[1].quantity = Int0(0)
    /\ Rows[2].quantity = Null
    /\ Len(MissingQuantities) > 10
    /\ \A i \in MissingFindings("missing-qty") :
          /\ Len(Findings[i].affectedRows) = 10
          /\ Findings[i].affectedRows[1] = Rows[2].rowNumber
    /\ MissingFindings("missing-qty") # {}
    /\ MissingFindings("missing-pn") = {}

\* the row can have UoM findings: it has a unit and a quantity
HasUnitAndQuantity(r) == r.unitOfMeasure.s # <<>> /\ r.quantity.t = "num"

UnitContains(r, units) ==
    \E u \in units : includes(toLowerCase(r.unitOfMeasure.s), u)

HighForBulk(r) ==
    /\ HasUnitAndQuantity(r)
    /\ r.quantity.n > 10000 * Pow10(r.quantity.e)
    /\ UnitContains(r, BulkUnits)

FractionOfDiscrete(r) ==
    /\ HasUnitAndQuantity(r)
    /\ r.quantity.e # 0
    /\ UnitContains(r, DiscreteUnits)

UoMFindingsOf(rowNumber, level) ==
    {i \in FindingsOfType("uom_conflict") :
        /\ Findings[i].affectedRows = <<rowNumber>>
        /\ Findings[i].level = level}

\* C23: a row has a medium UoM finding exactly when it has a unit and a
\* quantity, the quantity is above 10000 and the lower-cased unit contains
\* reel, roll, drum or pallet, and a low one exactly when it has a unit and a
\* quantity, the quantity is not an integer and the lower-cased unit
\* contains each, ea, pc or pcs; it has no other; every UoM finding is the
\* finding of one row, whose number alone is its affectedRows.
Thm_C23_UoMConflicts ==
    Analysed =>
        /\ \A k \in 1..Len(Rows) :
              /\ Cardinality(UoMFindingsOf(Rows[k].rowNumber, "medium"))
                    = (IF HighForBulk(Rows[k]) THEN 1 ELSE 0)
              /\ Cardinality(UoMFindingsOf(Rows[k].rowNumber, "low"))
                    = (IF FractionOfDiscrete(Rows[k]) THEN 1 ELSE 0)
        /\ \A i \in FindingsOfType("uom_conflict") :
              /\ Len(Findings[i].affectedRows) = 1
              /\ Findings[i].level \in {"medium", "low"}
              /\ \E k \in 1..Len(Rows) :
                    Findings[i].affectedRows[1] = Rows[k].rowNumber

\* 10,001 reels in row 2, 2.5 each in row 3, 0 pc in row 4
Wit_C23_UoMConflicts ==
    /\ Analysed
    /\ Len(Rows) = 3
    /\ HighForBulk(Rows[1])
    /\ FractionOfDiscrete(Rows[2])
    /\ HasUnitAndQuantity(Rows[3])
    /\ Cardinality(FindingsOfType("uom_conflict")) = 2
    /\ UoMFindingsOf(2, "medium") # {}
    /\ UoMFindingsOf(3, "low") # {}

\* the mapping names no column for the field, or one the raw row lacks
Unmapped(k, f) ==
    \/ upload.columnMapping[f] = <<>>
    \/ upload.columnMapping[f][1] \notin DOMAIN upload.rows[k]

\* C24: a field whose mapping is null, or names a column the raw row does
\* not have, is materialized as its default - the empty string for
\* partNumber, description, unitOfMeasure and notes, absent for quantity and
\* unitPrice - whatever other columns the raw row has, a column named ""
\* among them.
Cex_C24_MaterializerDefaults ==
    Analysed =>
        \A k \in 1..Len(Rows) : \A f \in Fields :
            Unmapped(k, f) =>
                Rows[k][f] = (IF f \in NumericFields THEN Null ELSE Str(<<>>))

\* the characters of the fixed first part of an id
PrefixChars(p) ==
    CASE p = "duplicate" ->
            <<"d", "u", "p", "l", "i", "c", "a", "t", "e">>
      [] p = "incoterm" ->
            <<"i", "n", "c", "o", "t", "e", "r", "m">>
      [] p = "incoterm-ddp-phrase" ->
            <<"i", "n", "c", "o", "t", "e", "r", "m", "-", "d", "d", "p", "-", "p", "h", "r", "a", "s", "e">>
      [] p = "ld" ->
            <<"l", "d">>
      [] p = "uom-quantity" ->
            <<"u", "o", "m", "-", "q", "u", "a", "n", "t", "i", "t", "y">>
      [] p = "uom-fraction" ->
            <<"u", "o", "m", "-", "f", "r", "a", "c", "t", "i", "o", "n">>
      [] p = "missing-pn" ->
            <<"m", "i", "s", "s", "i", "n", "g", "-", "p", "n">>
      [] p = "missing-qty" ->
            <<"m", "i", "s", "s", "i", "n", "g", "-", "q", "t", "y">>
      [] p = "warning-row-limit" ->
            <<"w", "a", "r", "n", "i", "n", "g", "-", "r", "o", "w", "-", "l", "i", "m", "i", "t">>

\* the characters of the part of an id at position k: a part number or a
\* term as it is, a number (row number, Date.now(), random suffix) in digits
IdPart(id, k) ==
    IF id[1] \in {"duplicate", "incoterm"} /\ k = 2 THEN id[k]
    ELSE IntToDigits(id[k])

RECURSIVE IdSuffix(_, _)
IdSuffix(id, k) ==
    IF k > Len(id) THEN <<>>
    ELSE <<"-">> \o IdPart(id, k) \o IdSuffix(id, k + 1)

\* the id as the string the template literal builds
IdText(id) == PrefixChars(id[1]) \o IdSuffix(id, 2)

\* C25: the ids of the findings of one successful analysis - the findings
\* of all detectors and the row-limit warning - are pairwise distinct as
\* strings, although all are built at the same clock instant.
Thm_C25_UniqueIds ==
    Analysed =>
        Cardinality({IdText(Findings[i].id) : i \in 1..Len(Findings)})
            = Len(Findings)

\* a truncated sheet with the warning, a text finding, two duplicate groups
\* and UoM findings of both kinds in many rows
Wit_C25_UniqueIds ==
    /\ Analysed
    /\ \E i \in 1..Len(Findings) : IsRowLimitWarning(Findings[i])
    /\ FindingsOfType("incoterms") # {}
    /\ Cardinality(FindingsOfType("duplicate")) >= 2
    /\ Cardinality(FindingsOfType("uom_conflict")) > 10
    /\ \E i, j \in FindingsOfType("uom_conflict") :
          Findings[i].id[1] # Findings[j].id[1]

\* the string form of a cell without the characters of the set
Cleaned(value, removed) ==
    SelectSeq(JsString(value), LAMBDA c : c \notin removed)

\* the string begins, after white space and a sign, with a digit or with a
\* point and a digit
NumericStart(str) ==
    \E k \in 1..Len(str) :
        /\ \A j \in 1..(k - 1) :
              \/ str[j] \in WhiteSpace /\ \A i \in 1..(j - 1) : str[i] \in WhiteSpace
              \/ /\ str[j] \in {"+", "-"}
                 /\ j = k - 1
                 /\ \A i \in 1..(j - 1) : str[i] \in WhiteSpace
        /\ \/ str[k] \in Digits
           \/ str[k] = "." /\ k < Len(str) /\ str[k + 1] \in Digits

QuantityRemoved == {",", " ", "\t", "\n"}

PriceRemoved ==
    {",", " ", "\t", "\n", "$", "EUR", "GBP", "YEN", "WON", "(", ")"}

\* the value is absent when and only when the cell is null, undefined, ""
\* or its cleaned string form does not begin with a number
AbsentIffUnparsable(cell, value, removed) ==
    /\ value.t \in {"null", "num"}
    /\ value.t = "null"
          <=> \/ cell.t \in {"null", "undefined"}
              \/ cell = Str(<<>>)
              \/ ~NumericStart(Cleaned(cell, removed))

\* C26: parseQuantity and parsePrice give a number or absent for every
\* cell, never NaN: absent for null, undefined, "" and for a value whose
\* cleaned string form does not parse, a number otherwise; quantity strips
\* commas and white space ("1,234" is 1234), price also currency symbols and
\* parentheses ("(100)" is 100, "$1,234.50" is 1234.5).
Thm_C26_Normalizers ==
    Analysed =>
        /\ AbsentIffUnparsable(upload.rows[1].Qty, Rows[1].quantity,
                               QuantityRemoved)
        /\ AbsentIffUnparsable(upload.rows[1].Price, Rows[1].unitPrice,
                               PriceRemoved)
        /\ upload.rows[1].Qty = Str(<<"1", ",", "2", "3", "4">>)
              => Rows[1].quantity = Int0(1234)
        /\ upload.rows[1].Qty = Str(<<"1", " ", "0", "0", "0">>)
              => Rows[1].quantity = Int0(1000)
        /\ upload.rows[1].Price = Str(<<"(", "1", "0", "0", ")">>)
              => Rows[1].unitPrice = Int0(100)
        /\ upload.rows[1].Price
                = Str(<<"$", "1", ",", "2", "3", "4", ".", "5", "0">>)
              => Rows[1].unitPrice = MkNum(12345, 1)
        /\ upload.rows[1].Price = Str(<<"EUR", "5">>)
              => Rows[1].unitPrice = Int0(5)

\* "1,234" as quantity and "(100)" as price
Wit_C26_Normalizers ==
    /\ Analysed
    /\ upload.rows[1].Qty = Str(<<"1", ",", "2", "3", "4">>)
    /\ upload.rows[1].Price = Str(<<"(", "1", "0", "0", ")">>)
    /\ Rows[1].quantity = Int0(1234)
    /\ Rows[1].unitPrice = Int0(100)

\* the call before the last one of this request issued a token that is
\* still stored, for the array the last call was given
EarlierToken ==
    /\ lastCall.op # "none"
    /\ "token" \in DOMAIN lastCall.prev.result
    /\ lastCall.prev.result.token \in DOMAIN correctedFilesStore
    /\ correctedFilesStore[lastCall.prev.result.token].rows = lastCall.input

\* C27: the rows a token returns are the rows as they were when the token
\* was issued: a later tool call of the same request, an update of a cell
\* in particular, does not change what the token of an earlier call returns.
Cex_C27_Snapshot ==
    EarlierToken =>
        heap[getStoredData(correctedFilesStore,
                           lastCall.prev.result.token)[1].rows]
            = lastCall.inputBefore

\* the response of a request that was sent with the rows of the page and
\* had tool results has been replayed on the page
Replayed ==
    /\ ~inRequest
    /\ toolResults # <<>>
    /\ analysis # <<>>
    /\ heap[requestRows] # <<>>

\* C28: after the data-update events of a request's tool results are
\* replayed, the rows of the page equal, field by field, the current rows
\* the server was left with by those tool calls.
Cex_C28_ReplayEqualsServer ==
    Replayed => analysis[1].rows = heap[currentRows]

\* the list is in non-decreasing severity rank
Ranked(risks) ==
    \A i \in 1..(Len(risks) - 1) :
        levelOrder(risks[i].level) <= levelOrder(risks[i + 1].level)

\* the raw rows were cut to the ceiling
Truncated == shouldEnforceLimit /\ Len(upload.rows) > MAX_ROWS

\* C29 (as stated): the risks of every successful analysis, those with the
\* row-limit warning included, are in non-decreasing severity rank.
Cex_C29_FinalListRanked == Analysed => Ranked(Findings)

\* C29 (amended): the risks of a successful analysis are in non-decreasing
\* severity rank when the rows were not cut; when they were, the row-limit
\* warning (medium) is the first finding, whatever follows, and the findings
\* after it are in non-decreasing severity rank.
Thm_C29_RankedAfterWarning ==
    Analysed =>
        IF Truncated
        THEN /\ Findings # <<>>
             /\ IsRowLimitWarning(Findings[1])
             /\ Ranked(Tail(Findings))
             /\ \A i \in 2..Len(Findings) : ~IsRowLimitWarning(Findings[i])
        ELSE Ranked(Findings)

\* a cut sheet with a critical finding: the warning stands before it
Wit_C29_RankedAfterWarning ==
    /\ Analysed
    /\ Truncated
    /\ Len(Findings) >= 4
    /\ IsRowLimitWarning(Findings[1])
    /\ Findings[2].level = "critical"
    /\ Findings[Len(Findings)].level = "low"

\* C30: in the analysis processExcelFile returns and in every state of the
\* page after data-update events, summary.totalRows is the number of rows
\* of the analysis and summary.validRows the number of its rows with a
\* part number that is not blank.
Cex_C30_SummaryConsistent ==
    Analysed =>
        /\ analysis[1].summary.totalRows = Len(Rows)
        /\ analysis[1].summary.validRows = Len(SelectSeq(Rows, Grouped))

====
